---- MODULE Spec2Model ----
(***************************************************************************)
(* A model of better-ffmpeg-progress: the progress-line parser (utils.py), *)
(* the metrics aggregator and the process supervisor                       *)
(* (better_ffmpeg_progress.py) and the termination controller              *)
(* (terminate_process.py).                                                 *)
(*                                                                         *)
(* Conventions.  Text lines are strings.  Python's None is the empty       *)
(* tuple <<>> and a present value v is <<v>>.  Times are integers in       *)
(* microseconds (the unit of the wire protocol), so a float number of      *)
(* seconds s is the integer s * 10^6; quotients are exact rationals        *)
(* <<numerator, denominator>> in lowest terms.  Float rounding is not      *)
(* modelled; float overflow is.                                            *)
(***************************************************************************)
EXTENDS Integers, Sequences, FiniteSets, TLC

\* Bounds of the model.
MaxPayloadLen == 3
MaxUpdates == 3
MaxOutLines == 1
MaxErrLines == 2
PipeCapacity == 1
MaxCommandLen == 4
MaxBarLines == 2

VARIABLES
    command,         \* FfmpegProcess(command): the list as the caller passed it
    ffmpeg_command,  \* FfmpegProcess._ffmpeg_command, or None before __init__ sets it
    ctor_pc,         \* FfmpegProcess.__init__: "new", "constructed" or "raised"
    ctor_exc,        \* the exception that left __init__, or None
    probed,          \* the paths ffmpeg.probe has been called with
    validate_result, \* what validate_ffmpeg_command(command) did, or None before the call
    ffmpeg_found,    \* whether shutil.which finds "ffmpeg"
    present,         \* the paths that exist
    bar_lines,       \* use_rich, use_tqdm: the lines of process.stdout
    bar_returncode,  \* use_rich, use_tqdm: process.returncode after process.wait()
    rich,            \* use_rich: where it is, what it gave its display, its result
    tqdm,            \* use_tqdm: where it is, what it gave its display, its result
    parse_line,      \* parse_ffmpeg_progress_line: the argument `line`
    parse_total,     \* parse_ffmpeg_progress_line: the argument `total_duration_secs`
    parse_result,    \* what the call did: <<>> before the call, then <<outcome>>
    duration_secs,   \* FfmpegProcess._duration_secs (microseconds, or None)
    metrics,         \* FfmpegProcess._metrics
    current_size,    \* FfmpegProcess._current_size
    progress_handler, \* whether run() was given a progress_handler
    handler_calls,   \* the snapshots the progress_handler was called with
    agg_lines,       \* the lines _update_metrics was applied to, in order
    agg_exc,         \* the exception the last _update_metrics raised, or None
    agg_via,         \* per line of agg_lines, how it was applied
    sup_pc,          \* where run() / _start_process is
    sup_exc,         \* the exception that left run(), or None
    proc,            \* each process of the tree: "none", "running" or "exited"
    signals,         \* the signals each process has been sent
    returncode,      \* process.returncode
    pipe,            \* per channel, the lines written and not yet read
    queue,           \* per channel, stdout_queue / stderr_queue
    reader,          \* per channel, the _handle_pipe thread: "idle", "reading", "closed"
    written,         \* per channel, every line the child has written
    taken,           \* per channel, every line the poll loop or drain has taken
    log,             \* the lines of the log file
    error_messages,  \* FfmpegProcess._error_messages
    kill_list,       \* _kill_process_and_children: the children still to signal
    handled_end,     \* the calls made of success_handler and error_handler
    term_pc,         \* where terminate_ffmpeg_process is
    term_exc,        \* the exception that left terminate_ffmpeg_process, or None
    term_caught,     \* the exceptions its except clauses have taken
    os_name,         \* os.name: "nt" or "posix"
    ignores,         \* the processes that SIGTERM does not end
    denied,          \* the processes psutil may not signal (psutil.AccessDenied)
    pgroup,          \* the processes of the process group of the child
    children,        \* _terminate_children_processes: children
    alive,           \* _terminate_children_processes: alive
    terminated_by_pg, \* _terminate_parent_process_unix: terminated_by_pg
    timeout_at,      \* the length of signal_log when a wait for the parent last timed out, or None
    requested_alive, \* the processes running when termination was requested
    signal_log       \* the signals terminate_ffmpeg_process sent, in order

ctorVars == <<command, ffmpeg_command, ctor_pc, ctor_exc, probed, validate_result,
              ffmpeg_found, present>>
barVars == <<bar_lines, bar_returncode, rich, tqdm>>
parseVars == <<parse_line, parse_total, parse_result>>
metricVars == <<duration_secs, metrics, current_size, progress_handler, handler_calls>>
aggVars == <<agg_lines, agg_exc, agg_via>>
procVars == <<proc, signals>>
runVars == <<sup_pc, sup_exc, returncode, pipe, queue, reader, written, taken, log,
             error_messages, kill_list, handled_end>>
supVars == <<procVars, runVars>>
termVars == <<term_pc, term_exc, term_caught, os_name, ignores, denied, pgroup, children,
             terminated_by_pg, timeout_at,
              alive, requested_alive, signal_log>>
vars == <<ctorVars, barVars, parseVars, metricVars, aggVars, supVars, termVars>>

None == <<>>
Some(v) == <<v>>

-----------------------------------------------------------------------------
(* Python's str and bytes operations                                       *)

CharAt(s, i) == SubSeq(s, i, i)

Tail1(s) == SubSeq(s, 2, Len(s))

Last(seq) == seq[Len(seq)]

SetMin(S) == CHOOSE m \in S : \A n \in S : m <= n

SetMax(S) == CHOOSE m \in S : \A n \in S : m >= n

IsSpace(c) == c \in {" ", "\t", "\n", "\r"}

IsDigit(c) == c \in {"0", "1", "2", "3", "4", "5", "6", "7", "8", "9"}

DigitVal(c) ==
    CASE c = "0" -> 0 [] c = "1" -> 1 [] c = "2" -> 2 [] c = "3" -> 3
      [] c = "4" -> 4 [] c = "5" -> 5 [] c = "6" -> 6 [] c = "7" -> 7
      [] c = "8" -> 8 [] c = "9" -> 9

\* s.strip()
Strip(s) ==
    LET keep == {i \in 1..Len(s) : ~IsSpace(CharAt(s, i))}
    IN  IF keep = {} THEN "" ELSE SubSeq(s, SetMin(keep), SetMax(keep))

\* s.startswith(p)
StartsWith(s, p) == Len(s) >= Len(p) /\ SubSeq(s, 1, Len(p)) = p

\* sub in s
Contains(s, sub) ==
    \E i \in 1..(Len(s) - Len(sub) + 1) : SubSeq(s, i, i + Len(sub) - 1) = sub

\* The string of n copies of the character c.
RECURSIVE Rep(_, _)
Rep(c, n) ==
    IF n = 0 THEN ""
    ELSE IF n % 2 = 0 THEN LET h == Rep(c, n \div 2) IN h \o h
    ELSE c \o Rep(c, n - 1)

\* Every string of exactly n characters of the alphabet A.
RECURSIVE StringsOfLen(_, _)
StringsOfLen(A, n) ==
    IF n = 0 THEN {""} ELSE {s \o c : s \in StringsOfLen(A, n - 1), c \in A}

StringsUpTo(A, n) == UNION {StringsOfLen(A, k) : k \in 0..n}

-----------------------------------------------------------------------------
(* Python's int(text): optional surrounding whitespace, an optional sign,  *)
(* decimal digits with single underscores between digits.  An int is       *)
(* unbounded; it is kept as its sign, the count nd of its significant      *)
(* digits, and its magnitude when that has at most 9 digits.               *)

HasSign(t) == Len(t) > 0 /\ CharAt(t, 1) \in {"+", "-"}

Unsigned(t) == IF HasSign(t) THEN Tail1(t) ELSE t

\* Whether b is the body of an int literal.
IsIntBody(b) ==
    /\ Len(b) > 0
    /\ \A i \in 1..Len(b) : IsDigit(CharAt(b, i)) \/ CharAt(b, i) = "_"
    /\ CharAt(b, 1) # "_"
    /\ CharAt(b, Len(b)) # "_"
    /\ \A i \in 1..(Len(b) - 1) : ~(CharAt(b, i) = "_" /\ CharAt(b, i + 1) = "_")

\* The positions of the digits of b.
DigitsOf(b) == {i \in 1..Len(b) : IsDigit(CharAt(b, i))}

\* The positions of the significant digits of b: those from its first
\* non-zero digit on.
SigDigits(b) ==
    {i \in DigitsOf(b) : \E j \in DigitsOf(b) : j <= i /\ CharAt(b, j) # "0"}

RECURSIVE DecVal(_, _)
\* The value of the digits of b at the positions pos.
DecVal(b, pos) ==
    IF pos = {} THEN 0
    ELSE DecVal(b, pos \ {SetMax(pos)}) * 10 + DigitVal(CharAt(b, SetMax(pos)))

PyIntDigits(minus, b, sigd) ==
    [ok |-> TRUE, neg |-> (minus /\ sigd # {}), nd |-> Cardinality(sigd),
     mag |-> IF Cardinality(sigd) <= 9 THEN DecVal(b, sigd) ELSE 0]

PyIntBody(minus, b) ==
    IF IsIntBody(b) THEN PyIntDigits(minus, b, SigDigits(b)) ELSE [ok |-> FALSE]

PyIntStripped(t) == PyIntBody(HasSign(t) /\ CharAt(t, 1) = "-", Unsigned(t))

\* int(text): [ok |-> FALSE] is ValueError.
PyInt(text) == PyIntStripped(Strip(text))

\* Whether the int n is too large to convert to a float (above about
\* 1.8 * 10^308).  A 309-digit int may or may not be; none is in the inputs.
FloatOverflows(n) == n.nd > 309

\* a <= b for ints kept as PyInt keeps them; magnitudes of more than 9
\* digits are compared by their digit counts only.
IntLeq(a, b) ==
    IF a.neg # b.neg THEN a.neg
    ELSE IF a.nd # b.nd THEN (IF a.neg THEN a.nd > b.nd ELSE a.nd < b.nd)
    ELSE IF a.neg THEN a.mag >= b.mag ELSE a.mag <= b.mag

\* The float d (microseconds, d >= 0 and below 10^9) as PyInt keeps an int.
RECURSIVE NumDigits(_)
NumDigits(d) == IF d = 0 THEN 0 ELSE 1 + NumDigits(d \div 10)

AsInt(d) == [ok |-> TRUE, neg |-> FALSE, nd |-> NumDigits(d), mag |-> d]

-----------------------------------------------------------------------------
(* utils.py                                                                *)

_OUT_TIME_US_PREFIX == "out_time_us="

\* return min(current_time_secs, total_duration_secs)
ClampToTotal(current_time_secs, total) ==
    IF IntLeq(current_time_secs, total) THEN current_time_secs ELSE total

\* The statements of parse_ffmpeg_progress_line from int(value_str) on.
ParseValue(current_time_us, total_duration_secs) ==
    IF ~current_time_us.ok THEN [tag |-> "none"]
    ELSE IF FloatOverflows(current_time_us) THEN [tag |-> "raise", exc |-> "OverflowError"]
    ELSE IF total_duration_secs # None
         THEN [tag |-> "value",
               secs |-> ClampToTotal(current_time_us, AsInt(total_duration_secs[1]))]
    ELSE [tag |-> "value", secs |-> current_time_us]

\* The statements of parse_ffmpeg_progress_line on value_str.
ParseValueStr(value_str, total_duration_secs) ==
    IF value_str = "" THEN [tag |-> "none"]
    ELSE ParseValue(PyInt(value_str), total_duration_secs)

\* parse_ffmpeg_progress_line(line, total_duration_secs).  The outcome is
\* [tag |-> "none"], [tag |-> "value", secs |-> an int of microseconds] or
\* [tag |-> "raise", exc |-> the exception that leaves the function].
parse_ffmpeg_progress_line(line, total_duration_secs) ==
    IF StartsWith(line, _OUT_TIME_US_PREFIX)
    THEN ParseValueStr(SubSeq(line, Len(_OUT_TIME_US_PREFIX) + 1, Len(line)),
                       total_duration_secs)
    ELSE [tag |-> "none"]

-----------------------------------------------------------------------------
(* The parser on its own: every line of ParseLines with every duration of  *)
(* ParseTotals.                                                            *)

PayloadAlphabet == {"0", "1", "7", "-", "N", "/", "A", "=", "x", " "}

ParsePayloads ==
    StringsUpTo(PayloadAlphabet, MaxPayloadLen)
        \cup {"1500000", "N/A", "1_0", "+12", Rep("9", 12), Rep("9", 310), "-" \o Rep("9", 310)}

ParseLines ==
    {_OUT_TIME_US_PREFIX \o p : p \in ParsePayloads}
        \cup {"out_time_ms=" \o p : p \in {"", "7", "N/A"}}
        \cup {"", "out_time_us", "out_time_u", "speed=1x", "progress=end", " out_time_us=7"}

ParseTotals == {None, Some(0), Some(7), Some(1000000)}

ParseCall ==
    /\ parse_result = None
    /\ parse_result' = Some(parse_ffmpeg_progress_line(parse_line, parse_total))
    /\ UNCHANGED <<ctorVars, barVars, parse_line, parse_total, metricVars, aggVars, supVars, termVars>>

-----------------------------------------------------------------------------
(* Exact rationals <<n, d>>, d > 0, in lowest terms.  <<1, 0>> is the      *)
(* float inf.                                                              *)

Abs(n) == IF n < 0 THEN -n ELSE n

RECURSIVE GCD(_, _)
GCD(a, b) == IF b = 0 THEN a ELSE GCD(b, a % b)

Rat(n, d) ==
    LET g == GCD(Abs(n), Abs(d))
        sgn == IF d < 0 THEN -1 ELSE 1
    IN  <<sgn * (n \div g), sgn * (d \div g)>>

\* x * y, reducing across before multiplying.
RatMul(x, y) ==
    LET a == Rat(x[1], y[2])
        b == Rat(y[1], x[2])
    IN  <<a[1] * b[1], a[2] * b[2]>>

\* x / y for y # 0; dividing by inf gives 0.
RatDiv(x, y) ==
    IF y[2] = 0 THEN <<0, 1>>
    ELSE RatMul(x, IF y[1] < 0 THEN <<-y[2], -y[1]>> ELSE <<y[2], y[1]>>)

RatLt(x, y) == x[1] * y[2] < y[1] * x[2]

RatLeq(x, y) == x[1] * y[2] <= y[1] * x[2]

\* int(x): truncation toward zero.
Trunc(x) == IF x[1] >= 0 THEN x[1] \div x[2] ELSE -((-x[1]) \div x[2])

RECURSIVE Pow10(_)
Pow10(k) == IF k = 0 THEN 1 ELSE 10 * Pow10(k - 1)

-----------------------------------------------------------------------------
(* Python's str.lower(), str.rstrip(chars), str.split(sep) and float(text) *)

UpperLetters == "ABCDEFGHIJKLMNOPQRSTUVWXYZ"
LowerLetters == "abcdefghijklmnopqrstuvwxyz"

LowerChar(c) ==
    IF \E i \in 1..26 : CharAt(UpperLetters, i) = c
    THEN CharAt(LowerLetters, CHOOSE i \in 1..26 : CharAt(UpperLetters, i) = c)
    ELSE c

RECURSIVE Lower(_)
Lower(s) == IF s = "" THEN "" ELSE LowerChar(CharAt(s, 1)) \o Lower(Tail1(s))

\* s.rstrip(c) for a single character c.
RStrip(s, c) ==
    LET keep == {i \in 1..Len(s) : CharAt(s, i) # c}
    IN  IF keep = {} THEN "" ELSE SubSeq(s, 1, SetMax(keep))

\* s.split(sep) for a single character sep: the list of the parts.
SplitAt(s, cuts) ==
    LET n == Cardinality(cuts)
        cut(k) == IF k = 0 THEN 0
                  ELSE IF k = n + 1 THEN Len(s) + 1
                  ELSE CHOOSE i \in cuts : Cardinality({j \in cuts : j < i}) = k - 1
    IN  [k \in 1..(n + 1) |-> SubSeq(s, cut(k - 1) + 1, cut(k) - 1)]

Split(s, sep) == SplitAt(s, {i \in 1..Len(s) : CharAt(s, i) = sep})

\* float(text): [ok |-> FALSE] is ValueError, otherwise nan or the value.
\* The literals are: optional sign, digits with at most one point, an
\* optional exponent; inf, infinity and nan in any case.
NotFloat == [ok |-> FALSE]

PyFloatValue(m, e) ==
    [ok |-> TRUE, nan |-> FALSE,
     val |-> IF e >= 0 THEN Rat(m * Pow10(e), 1) ELSE Rat(m, Pow10(-e))]

\* The mantissa mant, its points at dots and its digits at digs, times 10^e.
PyFloatMantissa(sgn, mant, e, dots, digs) ==
    IF Cardinality(dots) > 1 \/ digs = {} \/ (digs \cup dots) # 1..Len(mant)
    THEN NotFloat
    ELSE PyFloatValue(sgn * DecVal(mant, digs),
                      e - Cardinality({i \in digs : \E d \in dots : i > d}))

PyFloatParts(sgn, mant, expo) ==
    IF ~expo.ok THEN NotFloat
    ELSE PyFloatMantissa(sgn, mant, IF expo.neg THEN -expo.mag ELSE expo.mag,
                         {i \in 1..Len(mant) : CharAt(mant, i) = "."}, DigitsOf(mant))

PyFloatExponent(sgn, mant, expText) ==
    IF expText # Strip(expText) \/ Contains(expText, "_") THEN NotFloat
    ELSE PyFloatParts(sgn, mant, PyInt(expText))

\* The literal b with its exponent markers at es.
PyFloatDecimal(sgn, b, es) ==
    IF es = {} THEN PyFloatParts(sgn, b, [ok |-> TRUE, neg |-> FALSE, nd |-> 0, mag |-> 0])
    ELSE IF Cardinality(es) > 1 THEN NotFloat
    ELSE PyFloatExponent(sgn, SubSeq(b, 1, SetMin(es) - 1), SubSeq(b, SetMin(es) + 1, Len(b)))

PyFloatNamed(sgn, b, low) ==
    IF low \in {"inf", "infinity"} THEN [ok |-> TRUE, nan |-> FALSE, val |-> <<sgn, 0>>]
    ELSE IF low = "nan" THEN [ok |-> TRUE, nan |-> TRUE, val |-> <<0, 1>>]
    ELSE PyFloatDecimal(sgn, b, {i \in 1..Len(b) : CharAt(b, i) \in {"e", "E"}})

PyFloatBody(sgn, b) == PyFloatNamed(sgn, b, Lower(b))

PyFloatStripped(t) ==
    PyFloatBody(IF HasSign(t) /\ CharAt(t, 1) = "-" THEN -1 ELSE 1, Unsigned(t))

PyFloat(text) == PyFloatStripped(Strip(text))

-----------------------------------------------------------------------------
(* better_ffmpeg_progress.py: Metrics and FfmpegProcess._update_metrics.   *)
(* An update works on st = [duration_secs, metrics, current_size, exc,     *)
(* handled]: exc is the exception that left the update (nothing after the  *)
(* raise has run), handled whether the progress_handler was called.        *)

\* Metrics(): percentage is a rational, seconds_processed an integer of
\* microseconds, speed a rational or None, eta a rational of microseconds
\* or None, estimated_size an integer or None.
Metrics ==
    [percentage |-> <<0, 1>>, seconds_processed |-> 0, speed |-> None,
     eta |-> None, estimated_size |-> None]

WANTED_METRICS == {"out_time_ms", "total_size", "speed"}

\* The int n of PyInt as an integer (n has at most 9 digits in every line of
\* the model).
IntOf(n) == IF n.neg THEN -n.mag ELSE n.mag

\* if self._duration_secs:
DurationTruthy(st) == st.duration_secs # None /\ st.duration_secs # Some(0)

Raise(st, exc) == [st EXCEPT !.exc = Some(exc)]

\* self._current_size = int(value)
SetCurrentSize(st, n) ==
    IF ~n.ok THEN Raise(st, "ValueError") ELSE [st EXCEPT !.current_size = IntOf(n)]

\* if metric == "total_size": ...
UpdateTotalSize(st, value) == SetCurrentSize(st, PyInt(value))

\* UpdateEstimatedSize with percentage / 100 for 100 / percentage.
UpdateEstimatedSize_Inverted(st) ==
    IF st.current_size # 0 /\ RatLt(<<0, 1>>, st.metrics.percentage)
    THEN [st EXCEPT !.metrics.estimated_size =
              Some(Trunc(RatMul(<<st.current_size, 1>>,
                                RatDiv(st.metrics.percentage, <<100, 1>>))))]
    ELSE st

\* if self._current_size and self._metrics.percentage > 0: ...
UpdateEstimatedSize(st) ==
    IF st.current_size # 0 /\ RatLt(<<0, 1>>, st.metrics.percentage)
    THEN [st EXCEPT !.metrics.estimated_size =
              Some(Trunc(RatMul(<<st.current_size, 1>>,
                                RatDiv(<<100, 1>>, st.metrics.percentage))))]
    ELSE st

\* self._metrics.percentage = (seconds_processed / self._duration_secs) * 100
SetPercentage(st) ==
    [st EXCEPT !.metrics.percentage =
        RatMul(Rat(st.metrics.seconds_processed, st.duration_secs[1]), <<100, 1>>)]

\* if self._duration_secs: ...
UpdatePercentage(st) ==
    IF DurationTruthy(st) THEN UpdateEstimatedSize(SetPercentage(st)) ELSE st

\* self._metrics.seconds_processed = int(value) / 1_000_000
SetSecondsProcessed(st, n) ==
    IF ~n.ok THEN Raise(st, "ValueError")
    ELSE UpdatePercentage([st EXCEPT !.metrics.seconds_processed = IntOf(n)])

\* elif metric == "out_time_ms": ...
UpdateOutTime(st, value) == SetSecondsProcessed(st, PyInt(value))

\* SetEta with the whole duration as the seconds that remain.
SetEta_WholeDuration(st) ==
    IF DurationTruthy(st)
    THEN [st EXCEPT !.metrics.eta =
              Some(RatDiv(<<st.duration_secs[1], 1>>, st.metrics.speed[1]))]
    ELSE st

\* self._metrics.eta = seconds_remaining / self._metrics.speed
SetEta(st) ==
    IF DurationTruthy(st)
    THEN [st EXCEPT !.metrics.eta =
              Some(RatDiv(<<st.duration_secs[1] - st.metrics.seconds_processed, 1>>,
                          st.metrics.speed[1]))]
    ELSE st

\* SetSpeed with a speed of 0 stored.
SetSpeed_StoresZero(st, speed_float) ==
    IF ~speed_float.ok THEN Raise(st, "ValueError")
    ELSE IF speed_float.nan THEN st
    ELSE IF ~RatLt(<<0, 1>>, speed_float.val)
         THEN [st EXCEPT !.metrics.speed = Some(speed_float.val)]
    ELSE SetEta([st EXCEPT !.metrics.speed = Some(speed_float.val)])

\* if speed_float > 0: ...
SetSpeed(st, speed_float) ==
    IF ~speed_float.ok THEN Raise(st, "ValueError")
    ELSE IF speed_float.nan \/ ~RatLt(<<0, 1>>, speed_float.val) THEN st
    ELSE SetEta([st EXCEPT !.metrics.speed = Some(speed_float.val)])

\* elif metric == "speed": ...
UpdateSpeed(st, value) == SetSpeed(st, PyFloat(RStrip(value, "x")))

\* EndMarker with the assignment of eta left out.
EndMarker_KeepsEta(st, line) ==
    IF line = "progress=end"
    THEN [st EXCEPT !.metrics.percentage = <<100, 1>>]
    ELSE st

\* if line == "progress=end": ...
EndMarker(st, line) ==
    IF line = "progress=end"
    THEN [st EXCEPT !.metrics.percentage = <<100, 1>>, !.metrics.eta = Some(<<0, 1>>)]
    ELSE st

\* The arguments of a progress_handler call.
Snapshot(m) == <<m.percentage, m.speed, m.eta, m.estimated_size>>

\* if progress_handler: progress_handler(...)
CallHandler(st, handler) == [st EXCEPT !.handled = handler]

\* The if/elif chain on metric.
UpdateMetric(st, metric, value) ==
    CASE metric = "total_size" -> UpdateTotalSize(st, value)
      [] metric = "out_time_ms" -> UpdateOutTime(st, value)
      [] metric = "speed" -> UpdateSpeed(st, value)
      [] OTHER -> st

\* The statements after the if/elif chain, which a raise skips.
AfterUpdateMetric(st, line, handler) ==
    IF st.exc # None THEN st ELSE CallHandler(EndMarker(st, line), handler)

\* _update_metrics(line, metric, value, progress_handler)
_update_metrics(st, line, metric, value, handler) ==
    AfterUpdateMetric(UpdateMetric(st, metric, value), line, handler)

\* The fields of the process an update reads and writes.
MetricState ==
    [duration_secs |-> duration_secs, metrics |-> metrics,
     current_size |-> current_size, exc |-> None, handled |-> FALSE]

\* The process takes the state st an update left.
StoreMetricState(st) ==
    /\ metrics' = st.metrics
    /\ current_size' = st.current_size
    /\ handler_calls' = IF st.handled THEN Append(handler_calls, Snapshot(st.metrics))
                        ELSE handler_calls
    /\ UNCHANGED <<duration_secs, progress_handler>>

-----------------------------------------------------------------------------
(* The aggregator on its own: _update_metrics applied to up to MaxUpdates  *)
(* lines of AggLines, each split at its "=" as the poll loop splits it.    *)

DUR == 100000000

Durations == {None, Some(0), Some(DUR)}

AggLines ==
    {"out_time_ms=25000000", "out_time_ms=50000000", "out_time_ms=150000000",
     "out_time_ms=-5000000", "out_time_ms=0", "total_size=2000000", "total_size=0",
     "speed=25x", "speed=0.5x", "speed=0x", "speed=1e+03x", "progress=end",
     "progress=continue", "out_time_ms=abc", "speed=fast"}

AggStore(st) == agg_exc' = st.exc /\ StoreMetricState(st)

AggUpdate(line) ==
    /\ Len(agg_lines) < MaxUpdates
    /\ agg_exc = None
    /\ AggStore(_update_metrics(MetricState, line, Split(line, "=")[1],
                                 Split(line, "=")[2], progress_handler))
    /\ agg_lines' = Append(agg_lines, line)
    /\ agg_via' = Append(agg_via, "_update_metrics")
    /\ UNCHANGED <<ctorVars, barVars, parseVars, supVars, termVars>>

AggNext == \E line \in AggLines : AggUpdate(line)

-----------------------------------------------------------------------------
(* better_ffmpeg_progress.py: FfmpegProcess.run, _start_process,           *)
(* _handle_pipe, _kill_process_and_children and _handle_process_ended.     *)
(* The child is "ffmpeg"; d1 and d2 are its descendants, in the order      *)
(* psutil lists them; in a run the child has the one descendant d1.        *)
(* Terminal output (print, the rich bar) is left out.                      *)
(* run()'s error_handler and success_handler are read only by              *)
(* _handle_process_ended, so they are drawn there.                         *)

Channels == {"stdout", "stderr"}

Descendants == <<"d1", "d2">>

Procs == {"ffmpeg", "d1", "d2"}

error_words ==
    {"error", "failed", "invalid", "trailing", "unable", "unknown", "no such file",
     "permission denied", "not found", "unrecognized", "undefined", "unsupported",
     "does not exist", "missing", "not available", "cannot", "could not", "bad",
     "wrong", "forbidden"}

\* any(keyword in stderr.lower() for keyword in error_words)
HasErrorWord(lowered) == \E keyword \in error_words : Contains(lowered, keyword)

\* The lines the child writes, each with its line end.
OutLines ==
    {"out_time_ms=50000000\n", "out_time_ms=150000000\n", "out_time_ms=-5000000\n",
     "speed=25x\n", "speed=N/A\n", "progress=end\n", "progress\n", "a=b=c\n",
     "out_time_ms=12x\n", "\n"}

ErrLines == {"in.mp4: No such file or directory\n", "  Stream #0:0: Video: h264\n", "\n"}

MaxLines(ch) == IF ch = "stdout" THEN MaxOutLines ELSE MaxErrLines

LinesOf(ch) == IF ch = "stdout" THEN OutLines ELSE ErrLines

PollLoop == {"poll", "get_stdout", "get_stderr"}

\* run() up to the poll loop: the log file is emptied, _start_process writes
\* its first entry, starts the child and the two _handle_pipe threads.
Start ==
    /\ sup_pc = "not_started"
    /\ sup_pc' = "poll"
    /\ proc' = [p \in Procs |-> IF p = "d2" THEN "none" ELSE "running"]
    /\ reader' = [ch \in Channels |-> "reading"]
    /\ log' = <<"This file contains the log for the following command:">>
    /\ UNCHANGED <<sup_exc, signals, returncode, pipe, queue, written, taken, error_messages,
                   kill_list, handled_end>>
    /\ UNCHANGED <<ctorVars, barVars, parseVars, metricVars, aggVars, termVars>>

\* The child writes a line to one of its pipes; the write blocks while the
\* buffer of the pipe is full.
ChildWrite(ch, line) ==
    /\ proc["ffmpeg"] = "running"
    /\ Len(written[ch]) < MaxLines(ch)
    /\ Len(pipe[ch]) < PipeCapacity
    /\ pipe' = [pipe EXCEPT ![ch] = Append(@, line)]
    /\ written' = [written EXCEPT ![ch] = Append(@, line)]
    /\ UNCHANGED <<sup_pc, sup_exc, proc, signals, returncode, queue, reader, taken, log,
                   error_messages, kill_list, handled_end>>
    /\ UNCHANGED <<ctorVars, barVars, parseVars, metricVars, aggVars, termVars>>

\* The child exits: with 0 or 1 by itself, with -15 once it was sent SIGTERM.
ChildExit(rc) ==
    /\ proc["ffmpeg"] = "running"
    /\ rc = -15 => "SIGTERM" \in signals["ffmpeg"]
    /\ proc' = [proc EXCEPT !["ffmpeg"] = "exited"]
    /\ returncode' = Some(rc)
    /\ UNCHANGED <<sup_pc, sup_exc, signals, pipe, queue, reader, written, taken, log,
                   error_messages, kill_list, handled_end>>
    /\ UNCHANGED <<ctorVars, barVars, parseVars, metricVars, aggVars, termVars>>

\* ReadLine with a queue that hands out the newest line first.
ReadLine_NewestFirst(ch) ==
    /\ reader[ch] = "reading"
    /\ pipe[ch] # <<>>
    /\ queue' = [queue EXCEPT ![ch] = <<Strip(Head(pipe[ch]))>> \o @]
    /\ pipe' = [pipe EXCEPT ![ch] = Tail(@)]
    /\ UNCHANGED <<sup_pc, sup_exc, proc, signals, returncode, reader, written, taken, log,
                   error_messages, kill_list, handled_end>>
    /\ UNCHANGED <<ctorVars, barVars, parseVars, metricVars, aggVars, termVars>>

\* _handle_pipe: for line in pipe: queue.put(line.strip())
ReadLine(ch) ==
    /\ reader[ch] = "reading"
    /\ pipe[ch] # <<>>
    /\ queue' = [queue EXCEPT ![ch] = Append(@, Strip(Head(pipe[ch])))]
    /\ pipe' = [pipe EXCEPT ![ch] = Tail(@)]
    /\ UNCHANGED <<sup_pc, sup_exc, proc, signals, returncode, reader, written, taken, log,
                   error_messages, kill_list, handled_end>>
    /\ UNCHANGED <<ctorVars, barVars, parseVars, metricVars, aggVars, termVars>>

\* ReadEnd with a thread that ends only once its queue has been emptied.
ReadEnd_WaitsForConsumer(ch) ==
    /\ reader[ch] = "reading"
    /\ pipe[ch] = <<>>
    /\ queue[ch] = <<>>
    /\ proc["ffmpeg"] = "exited"
    /\ reader' = [reader EXCEPT ![ch] = "closed"]
    /\ UNCHANGED <<sup_pc, sup_exc, proc, signals, returncode, pipe, queue, written, taken,
                   log, error_messages, kill_list, handled_end>>
    /\ UNCHANGED <<ctorVars, barVars, parseVars, metricVars, aggVars, termVars>>

\* _handle_pipe: the end of the stream (the child has exited and the pipe is
\* empty), then pipe.close().
ReadEnd(ch) ==
    /\ reader[ch] = "reading"
    /\ pipe[ch] = <<>>
    /\ proc["ffmpeg"] = "exited"
    /\ reader' = [reader EXCEPT ![ch] = "closed"]
    /\ UNCHANGED <<sup_pc, sup_exc, proc, signals, returncode, pipe, queue, written, taken,
                   log, error_messages, kill_list, handled_end>>
    /\ UNCHANGED <<ctorVars, barVars, parseVars, metricVars, aggVars, termVars>>

\* Poll with the test of self._duration_secs left out.
Poll_AlwaysStdout ==
    /\ sup_pc = "poll"
    /\ sup_pc' = IF proc["ffmpeg"] = "running" THEN "get_stdout" ELSE "drain"
    /\ UNCHANGED <<sup_exc, proc, signals, returncode, pipe, queue, reader, written, taken,
                   log, error_messages, kill_list, handled_end>>
    /\ UNCHANGED <<ctorVars, barVars, parseVars, metricVars, aggVars, termVars>>

\* while process.poll() is None: and the test of self._duration_secs
Poll ==
    /\ sup_pc = "poll"
    /\ sup_pc' = IF proc["ffmpeg"] = "running"
                 THEN (IF duration_secs # None THEN "get_stdout" ELSE "get_stderr")
                 ELSE "drain"
    /\ UNCHANGED <<sup_exc, proc, signals, returncode, pipe, queue, reader, written, taken,
                   log, error_messages, kill_list, handled_end>>
    /\ UNCHANGED <<ctorVars, barVars, parseVars, metricVars, aggVars, termVars>>

\* The poll loop after an exception other than KeyboardInterrupt: it leaves
\* _start_process and run().
SupRaise(exc) ==
    /\ sup_pc' = "raised"
    /\ sup_exc' = exc
    /\ UNCHANGED metricVars

\* The poll loop takes the state st an update left.
SupStore(st) ==
    IF st.exc # None THEN SupRaise(st.exc)
    ELSE /\ sup_pc' = "get_stderr"
         /\ StoreMetricState(st)
         /\ UNCHANGED sup_exc

\* if metric in self.WANTED_METRICS and value and "N/A" not in value: ...
FilterMetric(st, stdout, metric, value, handler) ==
    IF metric \in WANTED_METRICS /\ value # "" /\ ~Contains(value, "N/A")
    THEN _update_metrics(st, stdout, metric, value, handler)
    ELSE st

\* metric, value = stdout.split("=")
SplitLine(st, stdout, parts, handler) ==
    IF Len(parts) # 2 THEN Raise(st, "ValueError")
    ELSE FilterMetric(st, stdout, parts[1], parts[2], handler)

\* if stdout: ..., on the state st of the metrics: the state it leaves.
HandleStdout(st, stdout, handler) ==
    IF stdout = "" THEN st ELSE SplitLine(st, stdout, Split(stdout, "="), handler)

\* stdout = stdout_queue.get_nowait() and what the loop does with it
GetStdout ==
    /\ sup_pc = "get_stdout"
    /\ IF queue["stdout"] = <<>>
       THEN /\ sup_pc' = "get_stderr"
            /\ UNCHANGED <<sup_exc, metricVars, queue, taken>>
       ELSE /\ SupStore(HandleStdout(MetricState, Head(queue["stdout"]), progress_handler))
            /\ queue' = [queue EXCEPT !["stdout"] = Tail(@)]
            /\ taken' = [taken EXCEPT !["stdout"] = Append(@, Head(queue["stdout"]))]
    /\ UNCHANGED <<proc, signals, returncode, pipe, reader, written, log, error_messages,
                   kill_list, handled_end>>
    /\ UNCHANGED <<ctorVars, barVars, parseVars, aggVars, termVars>>

\* HandleStderr with the scan on stderr instead of stderr.lower().
HandleStderr_CaseSensitive(stderr) ==
    /\ log' = IF stderr # "" THEN Append(log, stderr) ELSE log
    /\ error_messages' = IF stderr # "" /\ HasErrorWord(stderr)
                         THEN Append(error_messages, stderr)
                         ELSE error_messages
    /\ queue' = [queue EXCEPT !["stderr"] = Tail(@)]
    /\ taken' = [taken EXCEPT !["stderr"] = Append(@, stderr)]

\* if stderr: self._write_to_log_file(stderr) and the scan for error_words
HandleStderr(stderr) ==
    /\ log' = IF stderr # "" THEN Append(log, stderr) ELSE log
    /\ error_messages' = IF stderr # "" /\ HasErrorWord(Lower(stderr))
                         THEN Append(error_messages, stderr)
                         ELSE error_messages
    /\ queue' = [queue EXCEPT !["stderr"] = Tail(@)]
    /\ taken' = [taken EXCEPT !["stderr"] = Append(@, stderr)]

\* stderr = stderr_queue.get_nowait() in the poll loop
GetStderr ==
    /\ sup_pc = "get_stderr"
    /\ sup_pc' = "poll"
    /\ IF queue["stderr"] = <<>>
       THEN UNCHANGED <<log, error_messages, queue, taken>>
       ELSE HandleStderr(Head(queue["stderr"]))
    /\ UNCHANGED <<sup_exc, proc, signals, returncode, pipe, reader, written, kill_list,
                   handled_end>>
    /\ UNCHANGED <<ctorVars, barVars, parseVars, metricVars, aggVars, termVars>>

\* The loop after the poll loop: stderr_queue.get_nowait() until Empty, then
\* return process.returncode
Drain ==
    /\ sup_pc = "drain"
    /\ IF queue["stderr"] = <<>>
       THEN /\ sup_pc' = "returned"
            /\ UNCHANGED <<log, error_messages, queue, taken>>
       ELSE /\ sup_pc' = "drain"
            /\ HandleStderr(Head(queue["stderr"]))
    /\ UNCHANGED <<sup_exc, proc, signals, returncode, pipe, reader, written, kill_list,
                   handled_end>>
    /\ UNCHANGED <<ctorVars, barVars, parseVars, metricVars, aggVars, termVars>>

\* _kill_process_and_children when the first k - 1 children it lists are
\* running as child.terminate() reaches them and the k-th has gone by then
\* (psutil.NoSuchProcess, which ends the function); k = 0 when none has gone,
\* and then process.terminate() follows.
KillSignals(k) ==
    [p \in Procs |->
        IF p = "ffmpeg" THEN (IF k = 0 THEN signals[p] \cup {"SIGTERM"} ELSE signals[p])
        ELSE IF \E i \in 1..Len(Descendants) :
                    Descendants[i] = p /\ (k = 0 \/ i < k) /\ proc[p] = "running"
             THEN signals[p] \cup {"SIGTERM"}
        ELSE signals[p]]

\* except KeyboardInterrupt: the children are signalled, the log entry is
\* written and sys.exit raises SystemExit.
Interrupt(k) ==
    /\ sup_pc \in PollLoop
    /\ k # 0 => proc[Descendants[k]] = "running"
    /\ kill_list' = k
    /\ signals' = KillSignals(k)
    /\ proc' = [p \in Procs |-> IF k # 0 /\ p = Descendants[k] THEN "exited" ELSE proc[p]]
    /\ log' = Append(log, "\n[KeyboardInterrupt] FFmpeg process killed.")
    /\ sup_pc' = "terminated_by_request"
    /\ sup_exc' = Some("SystemExit")
    /\ UNCHANGED <<returncode, pipe, queue, reader, written, taken, error_messages,
                   handled_end>>
    /\ UNCHANGED <<ctorVars, barVars, parseVars, metricVars, aggVars, termVars>>

\* A KeyboardInterrupt after the poll loop, where nothing catches it.
InterruptDrain ==
    /\ sup_pc = "drain"
    /\ sup_pc' = "raised"
    /\ sup_exc' = Some("KeyboardInterrupt")
    /\ UNCHANGED <<proc, signals, returncode, pipe, queue, reader, written, taken, log,
                   error_messages, kill_list, handled_end>>
    /\ UNCHANGED <<ctorVars, barVars, parseVars, metricVars, aggVars, termVars>>

\* HandleProcessEnded with the branch of error_handler falling through to
\* success_handler.
HandleProcessEnded_NoExit(return_code, error_handler, success_handler) ==
    IF return_code # 0 /\ ~error_handler
    THEN /\ handled_end' = <<[call |-> "failure_report", return_code |-> return_code,
                              errors |-> error_messages]>>
         /\ sup_pc' = "failed"
         /\ sup_exc' = Some("SystemExit")
    ELSE /\ handled_end' =
                (IF return_code # 0 THEN <<[call |-> "error_handler"]>> ELSE <<>>)
                    \o (IF success_handler THEN <<[call |-> "success_handler"]>> ELSE <<>>)
         /\ sup_pc' = "succeeded"
         /\ UNCHANGED sup_exc

\* _handle_process_ended(return_code, error_handler, success_handler)
HandleProcessEnded(return_code, error_handler, success_handler) ==
    IF return_code # 0
    THEN /\ handled_end' =
                IF error_handler THEN <<[call |-> "error_handler"]>>
                ELSE <<[call |-> "failure_report", return_code |-> return_code,
                        errors |-> error_messages]>>
         /\ sup_pc' = "failed"
         /\ sup_exc' = Some("SystemExit")
    ELSE /\ handled_end' = IF success_handler THEN <<[call |-> "success_handler"]>> ELSE <<>>
         /\ sup_pc' = "succeeded"
         /\ UNCHANGED sup_exc

\* Finish with 0 for the return code.
Finish_ZeroCode(error_handler, success_handler) ==
    /\ sup_pc = "returned"
    /\ HandleProcessEnded(0, error_handler, success_handler)
    /\ UNCHANGED <<proc, signals, returncode, pipe, queue, reader, written, taken, log,
                   error_messages, kill_list>>
    /\ UNCHANGED <<ctorVars, barVars, parseVars, metricVars, aggVars, termVars>>

\* run() after _start_process has returned.
Finish(error_handler, success_handler) ==
    /\ sup_pc = "returned"
    /\ HandleProcessEnded(returncode[1], error_handler, success_handler)
    /\ UNCHANGED <<proc, signals, returncode, pipe, queue, reader, written, taken, log,
                   error_messages, kill_list>>
    /\ UNCHANGED <<ctorVars, barVars, parseVars, metricVars, aggVars, termVars>>

SupNext ==
    \/ Start
    \/ \E ch \in Channels : \E line \in LinesOf(ch) : ChildWrite(ch, line)
    \/ \E rc \in {0, 1, -15} : ChildExit(rc)
    \/ \E ch \in Channels : ReadLine(ch)
    \/ \E ch \in Channels : ReadEnd(ch)
    \/ Poll
    \/ GetStdout
    \/ GetStderr
    \/ Drain
    \/ \E k \in 0..Len(Descendants) : Interrupt(k)
    \/ InterruptDrain
    \/ \E eh \in BOOLEAN, sh \in BOOLEAN : Finish(eh, sh)

-----------------------------------------------------------------------------
(* The lines of a progress stream on the metrics, without the processes:   *)
(* each line is applied by _update_metrics, as AggUpdate applies it, or    *)
(* handled as the poll loop handles a line it has taken from stdout_queue. *)

FeedLines ==
    {"out_time_ms=25000000", "out_time_ms=150000000", "total_size=2000000", "speed=25x",
     "speed=0.5x", "speed=0x", "speed=N/A", "progress=end"}

\* if self._duration_secs is not None: ... if stdout: ... of the poll loop
FeedLine(line) ==
    /\ Len(agg_lines) < MaxUpdates
    /\ agg_exc = None
    /\ duration_secs # None
    /\ AggStore(HandleStdout(MetricState, line, progress_handler))
    /\ agg_lines' = Append(agg_lines, line)
    /\ agg_via' = Append(agg_via, "poll loop")
    /\ UNCHANGED <<ctorVars, barVars, parseVars, supVars, termVars>>

FeedNext ==
    \/ \E line \in FeedLines : AggUpdate(line)
    \/ \E line \in FeedLines : FeedLine(line)

-----------------------------------------------------------------------------
(* better_ffmpeg_progress.py: FfmpegProcess.__init__ with                  *)
(* _get_input_file_duration, and utils.py: validate_ffmpeg_command.        *)
(* A command is the sequence of its arguments; ffmpeg.probe succeeds only  *)
(* on a path that exists, and may fail on one that does.                   *)

InSeq(x, seq) == \E i \in 1..Len(seq) : seq[i] = x

\* seq.index(x), counted from 1
IndexOf(seq, x) == SetMin({i \in 1..Len(seq) : seq[i] = x})

\* extra_ffmpeg_options, with the default ffmpeg_loglevel
extra_ffmpeg_options ==
    <<"-hide_banner", "-loglevel", "verbose", "-progress", "pipe:1", "-stats_period", "0.1">>

\* command[1:1] = extra_ffmpeg_options
InsertOptions(cmd) ==
    IF cmd = <<>> THEN extra_ffmpeg_options
    ELSE <<Head(cmd)>> \o extra_ffmpeg_options \o Tail(cmd)

\* self._ffmpeg_command.extend(["-nostats"]) once the duration is known
WithNoStats(cmd, duration) == IF duration # None THEN cmd \o <<"-nostats">> ELSE cmd

\* __init__ leaves by an exception; the assignments before it are made.
CtorRaise(exc, cmd) ==
    /\ ctor_pc' = "raised"
    /\ ctor_exc' = Some(exc)
    /\ ffmpeg_command' = cmd
    /\ UNCHANGED <<probed, duration_secs>>

\* _get_input_file_duration on the command cmd with the input at index idx:
\* IndexError when "-i" is the last argument, else the probe of the input.
GetInputFileDuration(cmd, idx, probe_ok) ==
    IF idx > Len(cmd) THEN CtorRaise("IndexError", Some(cmd))
    ELSE /\ probe_ok => cmd[idx] \in present
         /\ probed' = Append(probed, cmd[idx])
         /\ duration_secs' = IF probe_ok THEN Some(DUR) ELSE None
         /\ ffmpeg_command' = Some(WithNoStats(cmd, duration_secs'))
         /\ ctor_pc' = "constructed"
         /\ UNCHANGED ctor_exc

\* FfmpegProcess(command)
Construct(probe_ok) ==
    /\ ctor_pc = "new"
    /\ IF ~InSeq("-i", command) THEN CtorRaise("ValueError", None)
       ELSE GetInputFileDuration(InsertOptions(command),
                                 IndexOf(InsertOptions(command), "-i") + 1, probe_ok)
    /\ metrics' = Metrics
    /\ current_size' = 0
    /\ UNCHANGED <<command, validate_result, ffmpeg_found, present, progress_handler,
                   handler_calls>>
    /\ UNCHANGED <<barVars, parseVars, aggVars, supVars, termVars>>

_FFMPEG_INPUT_FLAG == "-i"

FfmpegCommandError(message) == [raises |-> Some("FfmpegCommandError"), message |-> message]

\* input_file.startswith("-") and len(input_file) == 2 and not input_file[1:].isdigit()
LooksLikeFlag(input_file) ==
    /\ StartsWith(input_file, "-")
    /\ Len(input_file) = 2
    /\ ~IsDigit(CharAt(input_file, 2))

\* The input is a URL that requests.head reaches, or a path that exists.
InputAccessible(input_file) == input_file \in present

\* validate_ffmpeg_command from the test of the output on
ValidateOutput(cmd, input_file_idx) ==
    IF Len(cmd) <= input_file_idx THEN FfmpegCommandError("No output file specified.")
    ELSE IF Last(cmd) = cmd[input_file_idx]
    THEN FfmpegCommandError("Output file path cannot be the same as the input file path.")
    ELSE [raises |-> None, message |-> ""]

\* validate_ffmpeg_command from the test of the input on
ValidateInput(cmd, input_file_idx) ==
    IF input_file_idx > Len(cmd) THEN FfmpegCommandError("No input file specified.")
    ELSE IF LooksLikeFlag(cmd[input_file_idx])
    THEN FfmpegCommandError("Input file path looks like an option flag.")
    ELSE IF ~InputAccessible(cmd[input_file_idx])
    THEN FfmpegCommandError("Input file not found.")
    ELSE ValidateOutput(cmd, input_file_idx)

\* validate_ffmpeg_command(command)
validate_ffmpeg_command(cmd) ==
    IF cmd = <<>> THEN FfmpegCommandError("FFmpeg command list cannot be empty.")
    ELSE IF ~(Head(cmd) = "ffmpeg" /\ ffmpeg_found) THEN FfmpegCommandError("not found.")
    ELSE IF ~InSeq(_FFMPEG_INPUT_FLAG, cmd)
    THEN FfmpegCommandError("FFmpeg command must include the input flag.")
    ELSE ValidateInput(cmd, IndexOf(cmd, _FFMPEG_INPUT_FLAG) + 1)

\* A call of validate_ffmpeg_command(command); nothing of FfmpegProcess
\* makes it.
ValidateCall ==
    /\ validate_result = None
    /\ validate_result' = Some(validate_ffmpeg_command(command))
    /\ UNCHANGED <<command, ffmpeg_command, ctor_pc, ctor_exc, probed, ffmpeg_found, present>>
    /\ UNCHANGED <<barVars, parseVars, metricVars, aggVars, supVars, termVars>>

CommandWords == {"ffmpeg", "-i", "in.mp4", "out.mp4"}

\* Every command of at most MaxCommandLen words.
Commands == UNION {[1..k -> CommandWords] : k \in 0..MaxCommandLen}

CtorNext ==
    \/ \E probe_ok \in BOOLEAN : Construct(probe_ok)
    \/ ValidateCall

-----------------------------------------------------------------------------
(* progress_bars.py: use_rich and use_tqdm on the same process.  The lines *)
(* of process.stdout are bar_lines; `completed` is what the function has   *)
(* given its display, in order: the values of update_progress(task_id,     *)
(* completed=...) for rich and of progress_bar.n for tqdm, in microseconds.*)

\* if duration_secs:
BarDurationTruthy == duration_secs # None /\ duration_secs # Some(0)

\* bool(progress_bar) of a tqdm bar: its total is greater than 0
TqdmTruthy(st) == st.bar /\ duration_secs[1] > 0

\* use_rich up to the loop: the task is added if the duration is known.
RichStart ==
    /\ rich.pc = "start"
    /\ rich' = [rich EXCEPT !.pc = IF BarDurationTruthy THEN "lines" ELSE "wait",
                            !.task = BarDurationTruthy]
    /\ UNCHANGED <<bar_lines, bar_returncode, tqdm>>
    /\ UNCHANGED <<ctorVars, parseVars, metricVars, aggVars, supVars, termVars>>

\* if progress_val_secs is not None and task_id is not None:
\*     update_progress(task_id, completed=progress_val_secs)
RichUpdate(st, progress_val_secs) ==
    IF progress_val_secs.tag = "raise"
    THEN [st EXCEPT !.pc = "raised", !.exc = Some(progress_val_secs.exc)]
    ELSE IF progress_val_secs.tag = "value" /\ st.task
    THEN [st EXCEPT !.read = @ + 1, !.completed = Append(@, progress_val_secs.secs)]
    ELSE [st EXCEPT !.read = @ + 1]

\* use_rich: one line of for line_bytes in process.stdout:
RichLine ==
    /\ rich.pc = "lines"
    /\ rich.read < Len(bar_lines)
    /\ rich' = RichUpdate(rich, parse_ffmpeg_progress_line(Strip(bar_lines[rich.read + 1]),
                                                          duration_secs))
    /\ UNCHANGED <<bar_lines, bar_returncode, tqdm>>
    /\ UNCHANGED <<ctorVars, parseVars, metricVars, aggVars, supVars, termVars>>

\* use_rich from process.wait() on
RichEnd(st) ==
    [st EXCEPT !.pc = "done",
               !.completed = IF st.task /\ bar_returncode = 0
                             THEN Append(@, AsInt(duration_secs[1])) ELSE @,
               !.result = Some(IF bar_returncode # 0 THEN 1 ELSE 0)]

RichFinish ==
    /\ rich.pc = "wait" \/ (rich.pc = "lines" /\ rich.read = Len(bar_lines))
    /\ rich' = RichEnd(rich)
    /\ UNCHANGED <<bar_lines, bar_returncode, tqdm>>
    /\ UNCHANGED <<ctorVars, parseVars, metricVars, aggVars, supVars, termVars>>

\* use_tqdm up to the loop: the bar is made if the duration is known.
TqdmStart ==
    /\ tqdm.pc = "start"
    /\ tqdm' = [tqdm EXCEPT !.pc = IF BarDurationTruthy THEN "lines" ELSE "wait",
                            !.bar = BarDurationTruthy]
    /\ UNCHANGED <<bar_lines, bar_returncode, rich>>
    /\ UNCHANGED <<ctorVars, parseVars, metricVars, aggVars, supVars, termVars>>

\* if progress_val_secs is not None and progress_bar is not None:
\*     progress_bar.n = progress_val_secs; progress_bar.refresh()
TqdmUpdate(st, progress_val_secs) ==
    IF progress_val_secs.tag = "raise"
    THEN [st EXCEPT !.pc = "raised", !.exc = Some(progress_val_secs.exc)]
    ELSE IF progress_val_secs.tag = "value" /\ st.bar
    THEN [st EXCEPT !.read = @ + 1, !.completed = Append(@, progress_val_secs.secs)]
    ELSE [st EXCEPT !.read = @ + 1]

\* use_tqdm: one line of for line_bytes in process.stdout:
TqdmLine ==
    /\ tqdm.pc = "lines"
    /\ tqdm.read < Len(bar_lines)
    /\ tqdm' = TqdmUpdate(tqdm, parse_ffmpeg_progress_line(Strip(bar_lines[tqdm.read + 1]),
                                                          duration_secs))
    /\ UNCHANGED <<bar_lines, bar_returncode, rich>>
    /\ UNCHANGED <<ctorVars, parseVars, metricVars, aggVars, supVars, termVars>>

\* use_tqdm from process.wait() on
TqdmEnd(st) ==
    [st EXCEPT !.pc = "done",
               !.completed = IF bar_returncode = 0 /\ TqdmTruthy(st)
                             THEN Append(@, AsInt(duration_secs[1])) ELSE @,
               !.result = Some(IF bar_returncode # 0 THEN 1 ELSE 0)]

TqdmFinish ==
    /\ tqdm.pc = "wait" \/ (tqdm.pc = "lines" /\ tqdm.read = Len(bar_lines))
    /\ tqdm' = TqdmEnd(tqdm)
    /\ UNCHANGED <<bar_lines, bar_returncode, rich>>
    /\ UNCHANGED <<ctorVars, parseVars, metricVars, aggVars, supVars, termVars>>

\* The lines the child writes to stdout, each with its line end.
BarLines ==
    {"out_time_us=50000000\n", "out_time_us=150000000\n", "out_time_us=-5000000\n",
     "out_time_us=N/A\n", "progress=continue\n", "out_time_us=" \o Rep("9", 310) \o "\n"}

BarInputs == UNION {[1..k -> BarLines] : k \in 0..MaxBarLines}

BarNext ==
    \/ RichStart
    \/ RichLine
    \/ RichFinish
    \/ TqdmStart
    \/ TqdmLine
    \/ TqdmFinish

-----------------------------------------------------------------------------
(* terminate_process.py: terminate_ffmpeg_process(process)                 *)
(*                                                                         *)
(* One action per step between two points where the processes can change. *)
(* A process ends on a signal it does not ignore, or by itself; a process  *)
(* that has ended is gone for psutil and for os.getpgid.  wait(timeout)    *)
(* returns when the process has ended and raises TimeoutExpired while it   *)
(* is running.  The group of the child holds the supervising process too   *)
(* when the child was started without a group of its own.                  *)

TermProcs == Procs \cup {"supervisor"}

\* subprocess.Popen(..., creationflags=...) without start_new_session: on
\* POSIX the child and its descendants stay in the process group of the
\* supervising process.
PopenGroup == TermProcs

Running(p) == proc[p] = "running"

TermDone == {"returned", "fatal"}

\* The classes of psutil.Error and of OSError that the calls raise.
PsutilErrors == {"NoSuchProcess", "ZombieProcess", "AccessDenied", "TimeoutExpired"}

OSErrors == {"ProcessLookupError", "PermissionError"}

\* isinstance(exc, cls), for the classes the except clauses name
IsInstance(exc, cls) ==
    \/ cls = exc
    \/ cls = "psutil.Error" /\ exc \in PsutilErrors
    \/ cls = "OSError" /\ exc \in OSErrors
    \/ cls = "Exception"

\* One of the except clauses takes the exception.
Caught(exc, clauses) == \E cls \in clauses : IsInstance(exc, cls)

\* The except clauses, place by place.
GetHandleGone == {"NoSuchProcess", "ZombieProcess"}

GetHandleOther == {"Exception"}

FallbackExcept == {"Exception"}

EnumExcept == {"NoSuchProcess", "ZombieProcess", "AccessDenied", "Exception"}

ChildExcept_NoSuchProcessOnly == {"NoSuchProcess"}

ChildExcept == {"psutil.Error"}

WindowsExcept == {"NoSuchProcess", "TimeoutExpired", "AccessDenied", "psutil.Error"}

UnixWaitExcept == {"TimeoutExpired", "NoSuchProcess"}

UnixGroupExcept == {"ProcessLookupError", "OSError"}

DirectExcept == {"TimeoutExpired", "psutil.Error", "NoSuchProcess"}

ParentExcept == {"NoSuchProcess", "Exception"}

\* No exception: the function goes on at `to`.
GoOn(to) ==
    /\ term_pc' = to
    /\ UNCHANGED <<term_exc, term_caught>>

\* The exception exc where the clauses guard: it is taken and the function
\* goes on at `to`, or it leaves terminate_ffmpeg_process.
Except(exc, clauses, to) ==
    IF Caught(exc, clauses)
    THEN /\ term_pc' = to
         /\ term_caught' = term_caught \cup {exc}
         /\ UNCHANGED term_exc
    ELSE /\ term_pc' = "raised"
         /\ term_exc' = Some(exc)
         /\ UNCHANGED term_caught

\* The exception exc in one of the functions that terminate the parent: the
\* clauses of the function take it, or else those of the try statement of
\* terminate_ffmpeg_process around the call, after which the final test
\* follows.
ExceptInParent(exc, clauses, to) ==
    IF Caught(exc, clauses) THEN Except(exc, clauses, to)
    ELSE Except(exc, ParentExcept, "final")

\* The signal s reaches the processes of targets.
Deliver(targets, s) ==
    [p \in DOMAIN signals |-> IF p \in targets THEN signals[p] \cup {s} ELSE signals[p]]

\* The entries of signal_log for one call per process of seq.
LogAll(seq, how, s) ==
    [i \in 1..Len(seq) |-> [how |-> how, target |-> seq[i], sig |-> s]]

\* The processes of seq that child.is_running() finds and psutil may signal.
Signalled(seq) == SelectSeq(seq, LAMBDA c : Running(c) /\ c \notin denied)

SeqRange(seq) == {seq[i] : i \in 1..Len(seq)}

\* The processes of seq for which the call raises psutil.AccessDenied.
Refused(seq) == SelectSeq(seq, LAMBDA c : Running(c) /\ c \in denied)

\* The part of seq before the first process for which the call raises.
BeforeRefused(seq) ==
    SubSeq(seq, 1, SetMin({i \in 1..Len(seq) : Running(seq[i]) /\ seq[i] \in denied}) - 1)

\* The members of the group that os.killpg reaches.
GroupTargets == {p \in pgroup : Running(p) /\ p \notin denied}

\* The OSError of os.killpg when it reaches no process: no member runs, or
\* none may be signalled.
KillGroupError ==
    IF \E p \in pgroup : Running(p) THEN "PermissionError" ELSE "ProcessLookupError"

\* What no step of the termination changes.
TermFixed == UNCHANGED <<ctorVars, barVars, parseVars, metricVars, aggVars, runVars, os_name,
                         ignores, denied, pgroup>>

TermFrame == TermFixed /\ UNCHANGED <<terminated_by_pg, timeout_at>>

\* wait(timeout=...) for the parent raises TimeoutExpired.
TimedOut == timeout_at' = Some(Len(signal_log))

\* A signalled process ends: SIGKILL ends any process, SIGTERM one that does
\* not ignore it.
ProcExitOnSignal(p) ==
    /\ term_pc \notin TermDone \cup {"idle", "raised", "killed"}
    /\ Running(p)
    /\ "SIGKILL" \in signals[p] \/ ("SIGTERM" \in signals[p] /\ p \notin ignores)
    /\ proc' = [proc EXCEPT ![p] = "exited"]
    /\ UNCHANGED <<signals, term_pc, term_exc, term_caught, children, alive, requested_alive,
                   signal_log>>
    /\ TermFrame

\* A process ends by itself.
ProcExitNaturally(p) ==
    /\ term_pc \notin TermDone \cup {"idle", "raised", "killed"}
    /\ Running(p)
    /\ proc' = [proc EXCEPT ![p] = "exited"]
    /\ UNCHANGED <<signals, term_pc, term_exc, term_caught, children, alive, requested_alive,
                   signal_log>>
    /\ TermFrame

\* The supervising process ends on a signal sent to its own group, unless
\* it handles the signal: terminate_ffmpeg_process goes no further.
SupervisorEnds ==
    /\ term_pc \notin TermDone \cup {"idle", "raised", "killed"}
    /\ Running("supervisor")
    /\ signals["supervisor"] # {}
    /\ proc' = [proc EXCEPT !["supervisor"] = "exited"]
    /\ term_pc' = "killed"
    /\ UNCHANGED <<signals, term_exc, term_caught, children, alive, requested_alive,
                   signal_log>>
    /\ TermFrame

\* if not process or process.poll() is not None: return
TermEntry ==
    /\ term_pc = "start"
    /\ GoOn(IF Running("ffmpeg") THEN "get_handle" ELSE "returned")
    /\ requested_alive' = {p \in Procs : Running(p)}
    /\ UNCHANGED <<procVars, children, alive, signal_log>>
    /\ TermFrame

\* parent_ps_proc = psutil.Process(original_pid) and its except clauses
TermGetHandle(outcome) ==
    /\ term_pc = "get_handle"
    /\ outcome = "NoSuchProcess" => ~Running("ffmpeg")
    /\ IF outcome = "ok" THEN GoOn("tc_enum")
       ELSE IF Caught(outcome, GetHandleGone) THEN Except(outcome, GetHandleGone, "returned")
       ELSE Except(outcome, GetHandleOther, "fb_poll")
    /\ UNCHANGED <<procVars, children, alive, requested_alive, signal_log>>
    /\ TermFrame

\* except Exception: if process.poll() is None: process.terminate()
TermFallbackTerminate ==
    /\ term_pc = "fb_poll"
    /\ IF Running("ffmpeg")
       THEN /\ GoOn("fb_wait")
            /\ signals' = Deliver({"ffmpeg"}, "SIGTERM")
            /\ signal_log' = signal_log \o LogAll(<<"ffmpeg">>, "Popen.terminate", "SIGTERM")
       ELSE /\ GoOn("returned")
            /\ UNCHANGED <<signals, signal_log>>
    /\ UNCHANGED <<proc, children, alive, requested_alive>>
    /\ TermFrame

\* process.wait(timeout=...) of the fallback: it returns, and process.poll()
\* is then not None, or it raises TimeoutExpired, which except Exception
\* takes; return follows both.
TermFallbackWait ==
    /\ term_pc = "fb_wait"
    /\ IF Running("ffmpeg")
       THEN /\ Except("subprocess.TimeoutExpired", FallbackExcept, "returned")
            /\ TimedOut
       ELSE /\ GoOn("returned")
            /\ UNCHANGED timeout_at
    /\ UNCHANGED <<procVars, children, alive, requested_alive, signal_log>>
    /\ UNCHANGED terminated_by_pg
    /\ TermFixed

\* _terminate_children_processes: is_running() and children(recursive=True)
TermChildrenEnum(outcome) ==
    /\ term_pc = "tc_enum"
    /\ outcome # "ok" => Running("ffmpeg")
    /\ IF outcome # "ok"
       THEN /\ Except(outcome, EnumExcept, "tp_check")
            /\ children' = <<>>
       ELSE /\ children' = IF Running("ffmpeg") THEN SelectSeq(Descendants, Running) ELSE <<>>
            /\ GoOn(IF children' = <<>> THEN "tp_check" ELSE "tc_term")
    /\ UNCHANGED <<procVars, alive, requested_alive, signal_log>>
    /\ TermFrame

\* One of the two loops over the children: s is sent to the processes of seq
\* in turn by the call `how`; psutil.AccessDenied is passed over, or it ends
\* the loop and leaves the function.
SignalChildren(seq, how, s, to) ==
    IF Refused(seq) = <<>>
    THEN /\ GoOn(to)
         /\ signals' = Deliver(SeqRange(Signalled(seq)), s)
         /\ signal_log' = signal_log \o LogAll(Signalled(seq), how, s)
    ELSE /\ Except("AccessDenied", ChildExcept, to)
         /\ IF Caught("AccessDenied", ChildExcept)
            THEN /\ signals' = Deliver(SeqRange(Signalled(seq)), s)
                 /\ signal_log' = signal_log \o LogAll(Signalled(seq), how, s)
            ELSE /\ signals' = Deliver(SeqRange(Signalled(BeforeRefused(seq))), s)
                 /\ signal_log' = signal_log \o LogAll(Signalled(BeforeRefused(seq)), how, s)

\* TermChildrenTerminate with child.kill() in the first loop.
TermChildrenTerminate_KillsFirst ==
    /\ term_pc = "tc_term"
    /\ SignalChildren(children, "child.kill", "SIGKILL", "tc_wait")
    /\ UNCHANGED <<proc, children, alive, requested_alive>>
    /\ TermFrame

\* for child in children: if child.is_running(): child.terminate()
TermChildrenTerminate ==
    /\ term_pc = "tc_term"
    /\ SignalChildren(children, "child.terminate", "SIGTERM", "tc_wait")
    /\ UNCHANGED <<proc, children, alive, requested_alive>>
    /\ TermFrame

\* TermChildrenWait without the loop over alive.
TermChildrenWait_SkipsKill ==
    /\ term_pc = "tc_wait"
    /\ alive' = {c \in SeqRange(children) : Running(c)}
    /\ GoOn("tp_check")
    /\ UNCHANGED <<procVars, children, requested_alive, signal_log>>
    /\ TermFrame

\* _, alive = psutil.wait_procs(children, timeout=...); if alive: ...
TermChildrenWait ==
    /\ term_pc = "tc_wait"
    /\ alive' = {c \in SeqRange(children) : Running(c)}
    /\ GoOn(IF alive' = {} THEN "tp_check" ELSE "tc_kill")
    /\ UNCHANGED <<procVars, children, requested_alive, signal_log>>
    /\ TermFrame

\* for child_to_kill in alive: if child_to_kill.is_running(): child_to_kill.kill()
TermChildrenKill ==
    /\ term_pc = "tc_kill"
    /\ SignalChildren(SelectSeq(children, LAMBDA c : c \in alive), "child.kill", "SIGKILL",
                      "tp_check")
    /\ UNCHANGED <<proc, children, alive, requested_alive>>
    /\ TermFrame

\* if parent_ps_proc and parent_ps_proc.is_running(): if os.name == "nt": ...
TermParentCheck ==
    /\ term_pc = "tp_check"
    /\ GoOn(IF ~Running("ffmpeg") THEN "final"
            ELSE IF os_name = "nt" THEN "win_term" ELSE "ux_pgid")
    /\ UNCHANGED <<procVars, children, alive, requested_alive, signal_log>>
    /\ TermFrame

\* _terminate_parent_process_windows: proc.terminate(), which is kill() on
\* Windows; NoSuchProcess and AccessDenied end the function.
TermWindowsTerminate ==
    /\ term_pc = "win_term"
    /\ IF ~Running("ffmpeg")
       THEN /\ ExceptInParent("NoSuchProcess", WindowsExcept, "final")
            /\ UNCHANGED <<signals, signal_log>>
       ELSE IF "ffmpeg" \in denied
       THEN /\ ExceptInParent("AccessDenied", WindowsExcept, "final")
            /\ UNCHANGED <<signals, signal_log>>
       ELSE /\ GoOn("win_wait")
            /\ signals' = Deliver({"ffmpeg"}, "SIGKILL")
            /\ signal_log' = signal_log \o LogAll(<<"ffmpeg">>, "proc.terminate", "SIGKILL")
    /\ UNCHANGED <<proc, children, alive, requested_alive>>
    /\ TermFrame

\* _terminate_parent_process_windows: proc.wait(timeout=...); TimeoutExpired
\* only prints.
TermWindowsWait ==
    /\ term_pc = "win_wait"
    /\ IF Running("ffmpeg")
       THEN /\ ExceptInParent("TimeoutExpired", WindowsExcept, "final")
            /\ TimedOut
       ELSE /\ GoOn("final")
            /\ UNCHANGED timeout_at
    /\ UNCHANGED <<procVars, children, alive, requested_alive, signal_log>>
    /\ UNCHANGED terminated_by_pg
    /\ TermFixed

\* os.killpg(pgid_to_signal, s): OSError when it reaches no process.
KillGroup(s, to) ==
    IF GroupTargets = {}
    THEN /\ ExceptInParent(KillGroupError, UnixGroupExcept, "ux_direct")
         /\ UNCHANGED <<signals, signal_log>>
    ELSE /\ GoOn(to)
         /\ signals' = Deliver(GroupTargets, s)
         /\ signal_log' = signal_log \o LogAll(<<"pgroup">>, "os.killpg", s)

\* _terminate_parent_process_unix: os.getpgid(original_pid), with its
\* ProcessLookupError, and os.killpg(pgid_to_signal, SIGTERM)
TermUnixGroupTerm ==
    /\ term_pc = "ux_pgid"
    /\ IF Running("ffmpeg")
       THEN KillGroup("SIGTERM", "ux_wait1")
       ELSE /\ ExceptInParent("ProcessLookupError", UnixGroupExcept, "ux_direct")
            /\ UNCHANGED <<signals, signal_log>>
    /\ UNCHANGED <<proc, children, alive, requested_alive>>
    /\ TermFrame

\* TermUnixGroupWait with the SIGKILL of the group after every wait.
TermUnixGroupWait_KillsAnyway ==
    /\ term_pc = "ux_wait1"
    /\ GoOn("ux_killpg")
    /\ UNCHANGED <<terminated_by_pg, timeout_at>>
    /\ UNCHANGED <<procVars, children, alive, requested_alive, signal_log>>
    /\ TermFixed

\* proc.wait(timeout=...) after the SIGTERM of the group: terminated_by_pg,
\* and the function returns, or TimeoutExpired.
TermUnixGroupWait ==
    /\ term_pc = "ux_wait1"
    /\ IF Running("ffmpeg")
       THEN /\ ExceptInParent("TimeoutExpired", UnixWaitExcept, "ux_killpg")
            /\ TimedOut
            /\ UNCHANGED terminated_by_pg
       ELSE /\ GoOn("final")
            /\ terminated_by_pg' = TRUE
            /\ UNCHANGED timeout_at
    /\ UNCHANGED <<procVars, children, alive, requested_alive, signal_log>>
    /\ TermFixed

\* except psutil.TimeoutExpired: os.killpg(pgid_to_signal, SIGKILL)
TermUnixGroupKill ==
    /\ term_pc = "ux_killpg"
    /\ KillGroup("SIGKILL", "ux_wait2")
    /\ UNCHANGED <<proc, children, alive, requested_alive>>
    /\ TermFrame

\* proc.wait(timeout=...) after the SIGKILL of the group: terminated_by_pg,
\* or TimeoutExpired and the fallback to the process itself.
TermUnixGroupKillWait ==
    /\ term_pc = "ux_wait2"
    /\ IF Running("ffmpeg")
       THEN /\ ExceptInParent("TimeoutExpired", UnixWaitExcept, "ux_direct")
            /\ TimedOut
            /\ UNCHANGED terminated_by_pg
       ELSE /\ GoOn("final")
            /\ terminated_by_pg' = TRUE
            /\ UNCHANGED timeout_at
    /\ UNCHANGED <<procVars, children, alive, requested_alive, signal_log>>
    /\ TermFixed

\* The fallback: if proc.is_running(): proc.terminate(); psutil.Error is
\* caught and the test before SIGKILL follows.
TermUnixDirectTerm ==
    /\ term_pc = "ux_direct"
    /\ IF ~Running("ffmpeg")
       THEN /\ GoOn("final")
            /\ UNCHANGED <<signals, signal_log>>
       ELSE IF "ffmpeg" \in denied
       THEN /\ ExceptInParent("AccessDenied", DirectExcept, "ux_dkill")
            /\ UNCHANGED <<signals, signal_log>>
       ELSE /\ GoOn("ux_dwait")
            /\ signals' = Deliver({"ffmpeg"}, "SIGTERM")
            /\ signal_log' = signal_log \o LogAll(<<"ffmpeg">>, "proc.terminate", "SIGTERM")
    /\ UNCHANGED <<proc, children, alive, requested_alive>>
    /\ TermFrame

\* The fallback: proc.wait(timeout=...); if not proc.is_running(): return
TermUnixDirectWait ==
    /\ term_pc = "ux_dwait"
    /\ IF Running("ffmpeg")
       THEN /\ ExceptInParent("TimeoutExpired", DirectExcept, "ux_dkill")
            /\ TimedOut
       ELSE /\ GoOn("final")
            /\ UNCHANGED timeout_at
    /\ UNCHANGED <<procVars, children, alive, requested_alive, signal_log>>
    /\ UNCHANGED terminated_by_pg
    /\ TermFixed

\* The fallback: if proc.is_running(): proc.kill(); nothing waits for it.
TermUnixDirectKill ==
    /\ term_pc = "ux_dkill"
    /\ IF ~Running("ffmpeg")
       THEN /\ GoOn("final")
            /\ UNCHANGED <<signals, signal_log>>
       ELSE IF "ffmpeg" \in denied
       THEN /\ ExceptInParent("AccessDenied", DirectExcept, "final")
            /\ UNCHANGED <<signals, signal_log>>
       ELSE /\ GoOn("final")
            /\ signals' = Deliver({"ffmpeg"}, "SIGKILL")
            /\ signal_log' = signal_log \o LogAll(<<"ffmpeg">>, "proc.kill", "SIGKILL")
    /\ UNCHANGED <<proc, children, alive, requested_alive>>
    /\ TermFrame

\* if process.poll() is None: exit("It seems like ... has not terminated.")
TermFinal ==
    /\ term_pc = "final"
    /\ GoOn(IF Running("ffmpeg") THEN "fatal" ELSE "returned")
    /\ UNCHANGED <<procVars, children, alive, requested_alive, signal_log>>
    /\ TermFrame

TermNext ==
    \/ \E p \in Procs : ProcExitOnSignal(p)
    \/ \E p \in Procs : ProcExitNaturally(p)
    \/ SupervisorEnds
    \/ TermEntry
    \/ \E outcome \in {"ok", "NoSuchProcess", "AccessDenied"} : TermGetHandle(outcome)
    \/ TermFallbackTerminate
    \/ TermFallbackWait
    \/ \E outcome \in {"ok", "AccessDenied"} : TermChildrenEnum(outcome)
    \/ TermChildrenTerminate
    \/ TermChildrenWait
    \/ TermChildrenKill
    \/ TermParentCheck
    \/ TermWindowsTerminate
    \/ TermWindowsWait
    \/ TermUnixGroupTerm
    \/ TermUnixGroupWait
    \/ TermUnixGroupKill
    \/ TermUnixGroupKillWait
    \/ TermUnixDirectTerm
    \/ TermUnixDirectWait
    \/ TermUnixDirectKill
    \/ TermFinal

-----------------------------------------------------------------------------
(* The specifications                                                      *)

\* A run of FfmpegProcess.run() with its child and its reader threads.
Init ==
    /\ command = <<"ffmpeg", "-i", "in.mp4", "out.mp4">>
    /\ ctor_pc = "constructed"
    /\ ctor_exc = None
    /\ probed = <<"in.mp4">>
    /\ validate_result = None
    /\ ffmpeg_found = TRUE
    /\ present = {"in.mp4"}
    /\ bar_lines = <<>>
    /\ bar_returncode = 0
    /\ rich = [pc |-> "start", task |-> FALSE, read |-> 0, completed |-> <<>>,
               result |-> None, exc |-> None]
    /\ tqdm = [pc |-> "start", bar |-> FALSE, read |-> 0, completed |-> <<>>,
               result |-> None, exc |-> None]
    /\ parse_line = ""
    /\ parse_total = None
    /\ parse_result = None
    /\ duration_secs \in {None, Some(DUR)}
    /\ ffmpeg_command = Some(WithNoStats(InsertOptions(command), duration_secs))
    /\ metrics = Metrics
    /\ current_size = 0
    /\ progress_handler \in BOOLEAN
    /\ handler_calls = <<>>
    /\ agg_lines = <<>>
    /\ agg_exc = None
    /\ agg_via = <<>>
    /\ sup_pc = "not_started"
    /\ sup_exc = None
    /\ proc = [p \in Procs |-> "none"]
    /\ signals = [p \in Procs |-> {}]
    /\ returncode = None
    /\ pipe = [ch \in Channels |-> <<>>]
    /\ queue = [ch \in Channels |-> <<>>]
    /\ reader = [ch \in Channels |-> "idle"]
    /\ written = [ch \in Channels |-> <<>>]
    /\ taken = [ch \in Channels |-> <<>>]
    /\ log = <<>>
    /\ error_messages = <<>>
    /\ kill_list = 0
    /\ handled_end = <<>>
    /\ term_pc = "idle"
    /\ term_exc = None
    /\ term_caught = {}
    /\ os_name = "posix"
    /\ ignores = {}
    /\ denied = {}
    /\ pgroup = {}
    /\ children = <<>>
    /\ alive = {}
    /\ terminated_by_pg = FALSE
    /\ timeout_at = None
    /\ requested_alive = {}
    /\ signal_log = <<>>

Spec == Init /\ [][SupNext]_vars

\* A run with a known duration in which the two _handle_pipe threads are
\* scheduled fairly; nothing is assumed of the child or of the thread of
\* run().  The child writes a line the poll loop accepts or one it fails on.
FairLines(ch) ==
    IF ch = "stdout" THEN {"speed=25x\n", "progress\n"}
    ELSE {"in.mp4: No such file or directory\n", "\n"}

FairNext ==
    \/ Start
    \/ \E ch \in Channels : \E line \in FairLines(ch) : ChildWrite(ch, line)
    \/ \E rc \in {0, 1, -15} : ChildExit(rc)
    \/ \E ch \in Channels : ReadLine(ch)
    \/ \E ch \in Channels : ReadEnd(ch)
    \/ Poll
    \/ GetStdout
    \/ GetStderr
    \/ Drain
    \/ \E k \in 0..Len(Descendants) : Interrupt(k)
    \/ InterruptDrain
    \/ \E eh \in BOOLEAN, sh \in BOOLEAN : Finish(eh, sh)

FairInit ==
    /\ command = <<"ffmpeg", "-i", "in.mp4", "out.mp4">>
    /\ ctor_pc = "constructed"
    /\ ctor_exc = None
    /\ probed = <<"in.mp4">>
    /\ validate_result = None
    /\ ffmpeg_found = TRUE
    /\ present = {"in.mp4"}
    /\ bar_lines = <<>>
    /\ bar_returncode = 0
    /\ rich = [pc |-> "start", task |-> FALSE, read |-> 0, completed |-> <<>>,
               result |-> None, exc |-> None]
    /\ tqdm = [pc |-> "start", bar |-> FALSE, read |-> 0, completed |-> <<>>,
               result |-> None, exc |-> None]
    /\ parse_line = ""
    /\ parse_total = None
    /\ parse_result = None
    /\ duration_secs = Some(DUR)
    /\ ffmpeg_command = Some(WithNoStats(InsertOptions(command), duration_secs))
    /\ metrics = Metrics
    /\ current_size = 0
    /\ progress_handler = FALSE
    /\ handler_calls = <<>>
    /\ agg_lines = <<>>
    /\ agg_exc = None
    /\ agg_via = <<>>
    /\ sup_pc = "not_started"
    /\ sup_exc = None
    /\ proc = [p \in Procs |-> "none"]
    /\ signals = [p \in Procs |-> {}]
    /\ returncode = None
    /\ pipe = [ch \in Channels |-> <<>>]
    /\ queue = [ch \in Channels |-> <<>>]
    /\ reader = [ch \in Channels |-> "idle"]
    /\ written = [ch \in Channels |-> <<>>]
    /\ taken = [ch \in Channels |-> <<>>]
    /\ log = <<>>
    /\ error_messages = <<>>
    /\ kill_list = 0
    /\ handled_end = <<>>
    /\ term_pc = "idle"
    /\ term_exc = None
    /\ term_caught = {}
    /\ os_name = "posix"
    /\ ignores = {}
    /\ denied = {}
    /\ pgroup = {}
    /\ children = <<>>
    /\ alive = {}
    /\ terminated_by_pg = FALSE
    /\ timeout_at = None
    /\ requested_alive = {}
    /\ signal_log = <<>>

SpecFair ==
    /\ FairInit
    /\ [][FairNext]_vars
    /\ \A ch \in Channels : WF_vars(ReadLine(ch)) /\ WF_vars(ReadEnd(ch))

\* The construction of an FfmpegProcess from each command, and the
\* validation of the command.
CtorInit ==
    /\ command \in Commands
    /\ ctor_pc = "new"
    /\ ctor_exc = None
    /\ probed = <<>>
    /\ validate_result = None
    /\ ffmpeg_found \in BOOLEAN
    /\ present \in {{}, {"in.mp4"}}
    /\ bar_lines = <<>>
    /\ bar_returncode = 0
    /\ rich = [pc |-> "start", task |-> FALSE, read |-> 0, completed |-> <<>>,
               result |-> None, exc |-> None]
    /\ tqdm = [pc |-> "start", bar |-> FALSE, read |-> 0, completed |-> <<>>,
               result |-> None, exc |-> None]
    /\ parse_line = ""
    /\ parse_total = None
    /\ parse_result = None
    /\ duration_secs = None
    /\ ffmpeg_command = None
    /\ metrics = Metrics
    /\ current_size = 0
    /\ progress_handler = FALSE
    /\ handler_calls = <<>>
    /\ agg_lines = <<>>
    /\ agg_exc = None
    /\ agg_via = <<>>
    /\ sup_pc = "not_started"
    /\ sup_exc = None
    /\ proc = [p \in Procs |-> "none"]
    /\ signals = [p \in Procs |-> {}]
    /\ returncode = None
    /\ pipe = [ch \in Channels |-> <<>>]
    /\ queue = [ch \in Channels |-> <<>>]
    /\ reader = [ch \in Channels |-> "idle"]
    /\ written = [ch \in Channels |-> <<>>]
    /\ taken = [ch \in Channels |-> <<>>]
    /\ log = <<>>
    /\ error_messages = <<>>
    /\ kill_list = 0
    /\ handled_end = <<>>
    /\ term_pc = "idle"
    /\ term_exc = None
    /\ term_caught = {}
    /\ os_name = "posix"
    /\ ignores = {}
    /\ denied = {}
    /\ pgroup = {}
    /\ children = <<>>
    /\ alive = {}
    /\ terminated_by_pg = FALSE
    /\ timeout_at = None
    /\ requested_alive = {}
    /\ signal_log = <<>>

SpecCtor == CtorInit /\ [][CtorNext]_vars

\* use_rich and use_tqdm, each on every sequence of lines, with every
\* duration and exit code.
BarInit ==
    /\ command = <<"ffmpeg", "-i", "in.mp4", "out.mp4">>
    /\ ctor_pc = "constructed"
    /\ ctor_exc = None
    /\ probed = <<"in.mp4">>
    /\ validate_result = None
    /\ ffmpeg_found = TRUE
    /\ present = {"in.mp4"}
    /\ bar_lines \in BarInputs
    /\ bar_returncode \in {0, 1}
    /\ rich = [pc |-> "start", task |-> FALSE, read |-> 0, completed |-> <<>>,
               result |-> None, exc |-> None]
    /\ tqdm = [pc |-> "start", bar |-> FALSE, read |-> 0, completed |-> <<>>,
               result |-> None, exc |-> None]
    /\ parse_line = ""
    /\ parse_total = None
    /\ parse_result = None
    /\ duration_secs \in Durations
    /\ ffmpeg_command = Some(WithNoStats(InsertOptions(command), duration_secs))
    /\ metrics = Metrics
    /\ current_size = 0
    /\ progress_handler = FALSE
    /\ handler_calls = <<>>
    /\ agg_lines = <<>>
    /\ agg_exc = None
    /\ agg_via = <<>>
    /\ sup_pc = "not_started"
    /\ sup_exc = None
    /\ proc = [p \in Procs |-> "none"]
    /\ signals = [p \in Procs |-> {}]
    /\ returncode = None
    /\ pipe = [ch \in Channels |-> <<>>]
    /\ queue = [ch \in Channels |-> <<>>]
    /\ reader = [ch \in Channels |-> "idle"]
    /\ written = [ch \in Channels |-> <<>>]
    /\ taken = [ch \in Channels |-> <<>>]
    /\ log = <<>>
    /\ error_messages = <<>>
    /\ kill_list = 0
    /\ handled_end = <<>>
    /\ term_pc = "idle"
    /\ term_exc = None
    /\ term_caught = {}
    /\ os_name = "posix"
    /\ ignores = {}
    /\ denied = {}
    /\ pgroup = {}
    /\ children = <<>>
    /\ alive = {}
    /\ terminated_by_pg = FALSE
    /\ timeout_at = None
    /\ requested_alive = {}
    /\ signal_log = <<>>

SpecBars == BarInit /\ [][BarNext]_vars

\* _update_metrics on its own.
AggInit ==
    /\ command = <<"ffmpeg", "-i", "in.mp4", "out.mp4">>
    /\ ctor_pc = "constructed"
    /\ ctor_exc = None
    /\ probed = <<"in.mp4">>
    /\ validate_result = None
    /\ ffmpeg_found = TRUE
    /\ present = {"in.mp4"}
    /\ bar_lines = <<>>
    /\ bar_returncode = 0
    /\ rich = [pc |-> "start", task |-> FALSE, read |-> 0, completed |-> <<>>,
               result |-> None, exc |-> None]
    /\ tqdm = [pc |-> "start", bar |-> FALSE, read |-> 0, completed |-> <<>>,
               result |-> None, exc |-> None]
    /\ parse_line = ""
    /\ parse_total = None
    /\ parse_result = None
    /\ duration_secs \in Durations
    /\ ffmpeg_command = Some(WithNoStats(InsertOptions(command), duration_secs))
    /\ metrics = Metrics
    /\ current_size = 0
    /\ progress_handler \in BOOLEAN
    /\ handler_calls = <<>>
    /\ agg_lines = <<>>
    /\ agg_exc = None
    /\ agg_via = <<>>
    /\ sup_pc = "not_started"
    /\ sup_exc = None
    /\ proc = [p \in Procs |-> "none"]
    /\ signals = [p \in Procs |-> {}]
    /\ returncode = None
    /\ pipe = [ch \in Channels |-> <<>>]
    /\ queue = [ch \in Channels |-> <<>>]
    /\ reader = [ch \in Channels |-> "idle"]
    /\ written = [ch \in Channels |-> <<>>]
    /\ taken = [ch \in Channels |-> <<>>]
    /\ log = <<>>
    /\ error_messages = <<>>
    /\ kill_list = 0
    /\ handled_end = <<>>
    /\ term_pc = "idle"
    /\ term_exc = None
    /\ term_caught = {}
    /\ os_name = "posix"
    /\ ignores = {}
    /\ denied = {}
    /\ pgroup = {}
    /\ children = <<>>
    /\ alive = {}
    /\ terminated_by_pg = FALSE
    /\ timeout_at = None
    /\ requested_alive = {}
    /\ signal_log = <<>>

SpecAgg == AggInit /\ [][AggNext]_vars

\* parse_ffmpeg_progress_line on its own.
ParseInit ==
    /\ command = <<"ffmpeg", "-i", "in.mp4", "out.mp4">>
    /\ ctor_pc = "constructed"
    /\ ctor_exc = None
    /\ probed = <<"in.mp4">>
    /\ validate_result = None
    /\ ffmpeg_found = TRUE
    /\ present = {"in.mp4"}
    /\ bar_lines = <<>>
    /\ bar_returncode = 0
    /\ rich = [pc |-> "start", task |-> FALSE, read |-> 0, completed |-> <<>>,
               result |-> None, exc |-> None]
    /\ tqdm = [pc |-> "start", bar |-> FALSE, read |-> 0, completed |-> <<>>,
               result |-> None, exc |-> None]
    /\ parse_line \in ParseLines
    /\ parse_total \in ParseTotals
    /\ parse_result = None
    /\ duration_secs = None
    /\ ffmpeg_command = Some(WithNoStats(InsertOptions(command), duration_secs))
    /\ metrics = Metrics
    /\ current_size = 0
    /\ progress_handler = FALSE
    /\ handler_calls = <<>>
    /\ agg_lines = <<>>
    /\ agg_exc = None
    /\ agg_via = <<>>
    /\ sup_pc = "not_started"
    /\ sup_exc = None
    /\ proc = [p \in Procs |-> "none"]
    /\ signals = [p \in Procs |-> {}]
    /\ returncode = None
    /\ pipe = [ch \in Channels |-> <<>>]
    /\ queue = [ch \in Channels |-> <<>>]
    /\ reader = [ch \in Channels |-> "idle"]
    /\ written = [ch \in Channels |-> <<>>]
    /\ taken = [ch \in Channels |-> <<>>]
    /\ log = <<>>
    /\ error_messages = <<>>
    /\ kill_list = 0
    /\ handled_end = <<>>
    /\ term_pc = "idle"
    /\ term_exc = None
    /\ term_caught = {}
    /\ os_name = "posix"
    /\ ignores = {}
    /\ denied = {}
    /\ pgroup = {}
    /\ children = <<>>
    /\ alive = {}
    /\ terminated_by_pg = FALSE
    /\ timeout_at = None
    /\ requested_alive = {}
    /\ signal_log = <<>>

ParseNext == ParseCall

SpecParse == ParseInit /\ [][ParseNext]_vars

\* A call of terminate_ffmpeg_process on a running child with two
\* descendants.
TermInit ==
    /\ command = <<"ffmpeg", "-i", "in.mp4", "out.mp4">>
    /\ ctor_pc = "constructed"
    /\ ctor_exc = None
    /\ probed = <<"in.mp4">>
    /\ validate_result = None
    /\ ffmpeg_found = TRUE
    /\ present = {"in.mp4"}
    /\ bar_lines = <<>>
    /\ bar_returncode = 0
    /\ rich = [pc |-> "start", task |-> FALSE, read |-> 0, completed |-> <<>>,
               result |-> None, exc |-> None]
    /\ tqdm = [pc |-> "start", bar |-> FALSE, read |-> 0, completed |-> <<>>,
               result |-> None, exc |-> None]
    /\ parse_line = ""
    /\ parse_total = None
    /\ parse_result = None
    /\ duration_secs = None
    /\ ffmpeg_command = Some(WithNoStats(InsertOptions(command), duration_secs))
    /\ metrics = Metrics
    /\ current_size = 0
    /\ progress_handler = FALSE
    /\ handler_calls = <<>>
    /\ agg_lines = <<>>
    /\ agg_exc = None
    /\ agg_via = <<>>
    /\ sup_pc = "not_started"
    /\ sup_exc = None
    /\ proc = [p \in TermProcs |-> "running"]
    /\ signals = [p \in TermProcs |-> {}]
    /\ returncode = None
    /\ pipe = [ch \in Channels |-> <<>>]
    /\ queue = [ch \in Channels |-> <<>>]
    /\ reader = [ch \in Channels |-> "idle"]
    /\ written = [ch \in Channels |-> <<>>]
    /\ taken = [ch \in Channels |-> <<>>]
    /\ log = <<>>
    /\ error_messages = <<>>
    /\ kill_list = 0
    /\ handled_end = <<>>
    /\ term_pc = "start"
    /\ term_exc = None
    /\ term_caught = {}
    /\ os_name \in {"nt", "posix"}
    /\ ignores \in SUBSET Procs
    /\ denied \in SUBSET {"ffmpeg", "d1"}
    /\ pgroup \in {Procs, PopenGroup}
    /\ children = <<>>
    /\ alive = {}
    /\ terminated_by_pg = FALSE
    /\ timeout_at = None
    /\ requested_alive = {}
    /\ signal_log = <<>>

SpecTerm == TermInit /\ [][TermNext]_vars

\* A progress stream on the metrics of a new FfmpegProcess.
FeedInit ==
    /\ command = <<"ffmpeg", "-i", "in.mp4", "out.mp4">>
    /\ ctor_pc = "constructed"
    /\ ctor_exc = None
    /\ probed = <<"in.mp4">>
    /\ validate_result = None
    /\ ffmpeg_found = TRUE
    /\ present = {"in.mp4"}
    /\ bar_lines = <<>>
    /\ bar_returncode = 0
    /\ rich = [pc |-> "start", task |-> FALSE, read |-> 0, completed |-> <<>>,
               result |-> None, exc |-> None]
    /\ tqdm = [pc |-> "start", bar |-> FALSE, read |-> 0, completed |-> <<>>,
               result |-> None, exc |-> None]
    /\ parse_line = ""
    /\ parse_total = None
    /\ parse_result = None
    /\ duration_secs \in Durations
    /\ ffmpeg_command = Some(WithNoStats(InsertOptions(command), duration_secs))
    /\ metrics = Metrics
    /\ current_size = 0
    /\ progress_handler \in BOOLEAN
    /\ handler_calls = <<>>
    /\ agg_lines = <<>>
    /\ agg_exc = None
    /\ agg_via = <<>>
    /\ sup_pc = "not_started"
    /\ sup_exc = None
    /\ proc = [p \in Procs |-> "none"]
    /\ signals = [p \in Procs |-> {}]
    /\ returncode = None
    /\ pipe = [ch \in Channels |-> <<>>]
    /\ queue = [ch \in Channels |-> <<>>]
    /\ reader = [ch \in Channels |-> "idle"]
    /\ written = [ch \in Channels |-> <<>>]
    /\ taken = [ch \in Channels |-> <<>>]
    /\ log = <<>>
    /\ error_messages = <<>>
    /\ kill_list = 0
    /\ handled_end = <<>>
    /\ term_pc = "idle"
    /\ term_exc = None
    /\ term_caught = {}
    /\ os_name = "posix"
    /\ ignores = {}
    /\ denied = {}
    /\ pgroup = {}
    /\ children = <<>>
    /\ alive = {}
    /\ terminated_by_pg = FALSE
    /\ timeout_at = None
    /\ requested_alive = {}
    /\ signal_log = <<>>

SpecFeed == FeedInit /\ [][FeedNext]_vars

-----------------------------------------------------------------------------
(* The claims                                                              *)

\* The non-empty lines among the stripped lines of seq, in order.
NonEmptyStripped(seq) ==
    SelectSeq([i \in 1..Len(seq) |-> Strip(seq[i])], LAMBDA l : l # "")

\* The lines of seq that contain a word of error_words.
ErrorLinesOf(seq) == SelectSeq(seq, LAMBDA l : HasErrorWord(Lower(l)))

\* C1: when _start_process returns the exit code, the log holds every
\* non-empty line the child wrote to stderr, and error_messages holds each
\* of them that contains an error word.  The code does not keep it: the
\* reader thread is not joined, and the drain ends at the first empty queue.
C1_AllStderrLinesLogged ==
    sup_pc = "returned" =>
        /\ Tail(log) = NonEmptyStripped(written["stderr"])
        /\ error_messages = ErrorLinesOf(NonEmptyStripped(written["stderr"]))

\* Whether the payload of a wanted metric is a number the update accepts.
NumericPayload(metric, value) ==
    IF metric = "speed" THEN PyFloat(RStrip(value, "x")).ok ELSE PyInt(value).ok

MalformedParts(parts) ==
    \/ Len(parts) # 2
    \/ parts[1] \in WANTED_METRICS /\ ~NumericPayload(parts[1], parts[2])

\* A stdout line with no "=", with more than one "=", or with a wanted
\* metric and a payload that is not a number.
Malformed(line) == line # "" /\ MalformedParts(Split(line, "="))

\* The poll loop takes a line from the stdout queue in this step.
TakesStdout ==
    /\ sup_pc = "get_stdout"
    /\ Len(taken'["stdout"]) = Len(taken["stdout"]) + 1

\* C2: with a known duration, the poll loop skips a malformed stdout line:
\* the metrics are unchanged, no exception leaves the loop and the loop goes
\* on.  The code does not keep it: split, int and float raise ValueError.
C2_MalformedLineSkipped ==
    [][(TakesStdout /\ Malformed(Last(taken'["stdout"]))) =>
            /\ metrics' = metrics
            /\ current_size' = current_size
            /\ sup_exc' = None
            /\ sup_pc' = "get_stderr"]_vars

\* C3: terminate_ffmpeg_process, called on a running process, returns
\* normally only when the process has exited.  The code does not keep it on
\* the path where psutil.Process raises: TimeoutExpired of process.wait is
\* caught and return follows.
C3_ReturnsOnlyWhenExited ==
    (term_pc = "returned" /\ "ffmpeg" \in requested_alive) => ~Running("ffmpeg")

\* C4: when termination is requested while the process and its two
\* descendants run, terminate_ffmpeg_process does not return normally while
\* one of the three runs, whichever of them ignore SIGTERM.  The code does
\* not keep it: only the process itself is tested before the return.
C4_ReturnsOnlyWhenAllExited ==
    (term_pc = "returned" /\ requested_alive = Procs) => \A p \in Procs : ~Running(p)

\* C5: a KeyboardInterrupt in the poll loop leads to the log entry "FFmpeg
\* process killed" and the exit only once the child has exited or SIGKILL
\* has been sent to it.  The code does not keep it: it sends SIGTERM and
\* neither waits nor kills.
C5_KilledOnlyAfterExitOrKill ==
    [][(sup_pc # "terminated_by_request" /\ sup_pc' = "terminated_by_request") =>
            (proc'["ffmpeg"] = "exited" \/ "SIGKILL" \in signals'["ffmpeg"])]_vars

\* C6: with a known duration, when the poll loop takes the line
\* "progress=end", the metrics have percentage 100 and eta 0 afterwards and
\* a progress_handler is called with them.  The code does not keep it:
\* "progress" is not in WANTED_METRICS, so the line never reaches
\* _update_metrics.
C6_EndLineForcesCompletion ==
    [][(TakesStdout /\ duration_secs = Some(DUR)
            /\ Last(taken'["stdout"]) = "progress=end") =>
            /\ metrics'.percentage = <<100, 1>>
            /\ metrics'.eta = Some(<<0, 1>>)
            /\ progress_handler =>
                   handler_calls' = Append(handler_calls, Snapshot(metrics'))]_vars

\* The update of this step is _update_metrics with the line "progress=end".
AppliesEnd ==
    /\ Len(agg_lines') = Len(agg_lines) + 1
    /\ Last(agg_lines') = "progress=end"

\* C7: _update_metrics with the line "progress=end" leaves percentage 100
\* and eta 0, and applied a second time it leaves every field as the first
\* application left it.
C7_EndUpdateIdempotent ==
    [][AppliesEnd =>
            /\ agg_exc' = None
            /\ metrics'.percentage = <<100, 1>>
            /\ metrics'.eta = Some(<<0, 1>>)
            /\ (agg_lines # <<>> /\ Last(agg_lines) = "progress=end") =>
                   (metrics' = metrics /\ current_size' = current_size)]_vars

\* "progress=end" has been applied twice in a row, to metrics that an
\* out_time_ms update had set.
C7_Witness ==
    /\ Len(agg_lines) = MaxUpdates
    /\ agg_lines[MaxUpdates] = "progress=end"
    /\ agg_lines[MaxUpdates - 1] = "progress=end"
    /\ metrics.seconds_processed # 0
    /\ metrics.percentage = <<100, 1>>
    /\ metrics.eta = Some(<<0, 1>>)

\* The payload of a line that starts with the prefix.
PayloadOf(line) == SubSeq(line, Len(_OUT_TIME_US_PREFIX) + 1, Len(line))

\* The line is the prefix and an integer.
IsOutTimeLine(line) ==
    StartsWith(line, _OUT_TIME_US_PREFIX) /\ PayloadOf(line) # ""
        /\ PyInt(PayloadOf(line)).ok

\* r is the smaller of n and the total d.
IsMinOf(r, n, d) == IntLeq(r, n) /\ IntLeq(r, d) /\ (r = n \/ r = d)

\* C8: for a line "out_time_us=<integer>", parse_ffmpeg_progress_line
\* returns the integer over 1,000,000, and the smaller of it and the total
\* duration when that is known.  The code does not keep it for an integer
\* too large for a float, where it raises OverflowError (C9).
C8_ParseClampsToTotal ==
    (parse_result # None /\ IsOutTimeLine(parse_line)) =>
        /\ parse_result[1].tag = "value"
        /\ IF parse_total = None
           THEN parse_result[1].secs = PyInt(PayloadOf(parse_line))
           ELSE IsMinOf(parse_result[1].secs, PyInt(PayloadOf(parse_line)),
                        AsInt(parse_total[1]))

\* C9: parse_ffmpeg_progress_line never raises, and it returns None for a
\* line without the prefix, for an empty payload, for a payload that is not
\* an integer and for "N/A".  The code does not keep it: int * float raises
\* OverflowError for an integer of 310 digits, and only ValueError and
\* IndexError are caught.
C9_ParseNeverRaises ==
    parse_result # None =>
        /\ parse_result[1].tag # "raise"
        /\ ~IsOutTimeLine(parse_line) => parse_result[1].tag = "none"

\* C10: in a run with a known duration above 0 the percentage is in
\* [0, 100].  The code does not keep it: seconds_processed / duration * 100
\* is stored as computed, above 100 and below 0 included.
C10_PercentageInRange ==
    duration_secs = Some(DUR) =>
        RatLeq(<<0, 1>>, metrics.percentage) /\ RatLeq(metrics.percentage, <<100, 1>>)

\* The metric and the payload of a line with one "=".
KeyOf(line) == Split(line, "=")[1]

ValueOf(line) == Split(line, "=")[2]

\* An elapsed-time, a speed and a size update with a payload that is a number.
IsElapsedLine(line) == KeyOf(line) = "out_time_ms" /\ PyInt(ValueOf(line)).ok

IsSpeedLine(line) == KeyOf(line) = "speed" /\ PyFloat(RStrip(ValueOf(line), "x")).ok

IsSizeLine(line) == KeyOf(line) = "total_size" /\ PyInt(ValueOf(line)).ok

ElapsedOf(line) == IntOf(PyInt(ValueOf(line)))

SpeedOf(line) == PyFloat(RStrip(ValueOf(line), "x"))

\* This step applies one more line.
AppliesLine == Len(agg_lines') = Len(agg_lines) + 1

\* C11: with a known duration, after any sequence of elapsed-time and speed
\* updates, an eta that is set is at least 0.  The code does not keep it:
\* eta is (duration - seconds_processed) / speed, below 0 once the elapsed
\* time is above the duration.
C11_EtaNonNegative ==
    (/\ duration_secs = Some(DUR)
     /\ \A i \in 1..Len(agg_lines) : IsElapsedLine(agg_lines[i]) \/ IsSpeedLine(agg_lines[i])
     /\ metrics.eta # None)
        => RatLeq(<<0, 1>>, metrics.eta[1])

\* The elapsed times of the elapsed-time lines of seq are strictly increasing.
ElapsedIncreasing(seq) ==
    \A i, j \in 1..Len(seq) :
        (i < j /\ IsElapsedLine(seq[i]) /\ IsElapsedLine(seq[j]))
            => ElapsedOf(seq[i]) < ElapsedOf(seq[j])

\* C12: with a known duration and strictly increasing elapsed times, with
\* speed and size updates between them, the percentage after an update is
\* at least the percentage after the update before it.  The code does not
\* keep it: a negative elapsed time gives a percentage below 0 (C10).
C12_PercentageMonotone ==
    [][(/\ AppliesLine
        /\ agg_lines # <<>>
        /\ duration_secs = Some(DUR)
        /\ \A i \in 1..Len(agg_lines') :
                \/ IsElapsedLine(agg_lines'[i])
                \/ IsSpeedLine(agg_lines'[i])
                \/ IsSizeLine(agg_lines'[i])
        /\ ElapsedIncreasing(agg_lines'))
            => RatLeq(metrics.percentage, metrics'.percentage)]_vars

\* C13: the line "speed=0x" and the line "speed=N/A", applied by
\* _update_metrics or handled by the poll loop, leave eta and speed as they
\* were.
C13_ZeroSpeedKeepsEta ==
    [][(AppliesLine /\ Last(agg_lines') \in {"speed=0x", "speed=N/A"})
            => (metrics'.eta = metrics.eta /\ metrics'.speed = metrics.speed)]_vars

\* After "speed=25x" set eta to 4 s, _update_metrics has been applied to
\* "speed=0x" and the poll loop has handled "speed=N/A".
C13_Witness ==
    /\ agg_lines = <<"speed=25x", "speed=0x", "speed=N/A">>
    /\ agg_via = <<"_update_metrics", "_update_metrics", "poll loop">>
    /\ agg_exc = None
    /\ metrics.eta = Some(<<4000000, 1>>)
    /\ metrics.speed = Some(<<25, 1>>)

\* The last two lines are an elapsed-time update and a speed update above 0.
ElapsedThenSpeed ==
    /\ Len(agg_lines) >= 2
    /\ agg_exc = None
    /\ IsElapsedLine(agg_lines[Len(agg_lines) - 1])
    /\ IsSpeedLine(Last(agg_lines))
    /\ ~SpeedOf(Last(agg_lines)).nan
    /\ RatLt(<<0, 1>>, SpeedOf(Last(agg_lines)).val)

\* C14: with the duration D known, after an elapsed-time update of e and a
\* speed update of s > 0 the percentage is e / D * 100 and eta is
\* (D - e) / s (in microseconds here); D = 100 s, e = 25 s and s = 25 give
\* 25 and 3 s.
C14_PercentageAndEta ==
    (duration_secs = Some(DUR) /\ ElapsedThenSpeed) =>
        /\ metrics.percentage =
               RatMul(Rat(ElapsedOf(agg_lines[Len(agg_lines) - 1]), DUR), <<100, 1>>)
        /\ metrics.eta =
               Some(RatDiv(<<DUR - ElapsedOf(agg_lines[Len(agg_lines) - 1]), 1>>,
                           SpeedOf(Last(agg_lines)).val))
        /\ agg_lines = <<"out_time_ms=25000000", "speed=25x">> =>
               (metrics.percentage = <<25, 1>> /\ metrics.eta = Some(<<3000000, 1>>))

\* Scenario A has been fed.
C14_Witness ==
    /\ duration_secs = Some(DUR)
    /\ agg_lines = <<"out_time_ms=25000000", "speed=25x">>
    /\ metrics.percentage = <<25, 1>>
    /\ metrics.eta = Some(<<3000000, 1>>)

\* C15: in a run whose duration is None, whatever the child writes to
\* stdout, percentage, eta and estimated_size keep the values of a new
\* Metrics and no exception comes of the lines.
C15_UnknownDurationKeepsMetrics ==
    duration_secs = None =>
        /\ metrics.percentage = Metrics.percentage
        /\ metrics.eta = None
        /\ metrics.estimated_size = None
        /\ sup_exc # Some("ValueError")

\* A run without a duration whose child wrote an elapsed time of 50 s to
\* stdout has ended in success.
C15_Witness ==
    /\ duration_secs = None
    /\ written["stdout"] = <<"out_time_ms=50000000\n">>
    /\ reader["stdout"] = "closed"
    /\ sup_pc = "succeeded"

\* This step applies an elapsed-time update with a known duration.
AppliesElapsed ==
    AppliesLine /\ duration_secs = Some(DUR) /\ IsElapsedLine(Last(agg_lines'))

HandlerCalls ==
    SelectSeq(handled_end, LAMBDA c : c.call \in {"success_handler", "error_handler"})

Called(name) == \E i \in 1..Len(handled_end) : handled_end[i].call = name

\* The states in which run() has ended.
Terminal == {"succeeded", "failed", "terminated_by_request"}

\* C17, as stated: in every terminal state of a run exactly one handler
\* call has been made, of success_handler if and only if the exit code is 0
\* and of error_handler if and only if it is not.
C17_ExactlyOneHandlerCall ==
    sup_pc \in Terminal =>
        /\ Len(HandlerCalls) = 1
        /\ Called("success_handler") <=> returncode = Some(0)
        /\ Called("error_handler") <=> (returncode # None /\ returncode # Some(0))

\* C17, amended: at most one handler call is ever made; success_handler is
\* called only in a run that ends in success with exit code 0 and
\* error_handler only in one that fails with another exit code; a run ended
\* by KeyboardInterrupt or by an exception calls neither.
C17_AtMostOneHandlerCall ==
    /\ Len(handled_end) <= 1
    /\ Called("success_handler") => (sup_pc = "succeeded" /\ returncode = Some(0))
    /\ Called("error_handler") =>
           (sup_pc = "failed" /\ returncode # None /\ returncode # Some(0))
    /\ sup_pc \in {"terminated_by_request", "raised"} => handled_end = <<>>

\* A run has failed and its one handler call is of error_handler.
C17_Witness ==
    /\ sup_pc = "failed"
    /\ returncode = Some(1)
    /\ handled_end = <<[call |-> "error_handler"]>>

C19_SuccessAfterFinalDrain ==
    sup_pc = "succeeded" =>
        /\ duration_secs = Some(DUR) => Len(taken["stdout"]) = Len(written["stdout"])
        /\ queue["stderr"] = <<>>
        /\ pipe["stderr"] = <<>>

\* The line passes the test of the poll loop: a wanted metric with a
\* payload that is not empty and holds no "N/A".
Accepted(line) ==
    /\ Len(Split(line, "=")) = 2
    /\ KeyOf(line) \in WANTED_METRICS
    /\ ValueOf(line) # ""
    /\ ~Contains(ValueOf(line), "N/A")

\* C20: with a progress_handler and a known duration, the poll loop calls
\* the handler once for every accepted update, with the metrics the update
\* left, and at no other time.  The code does not keep it for an accepted
\* line whose payload is not a number: the update raises ValueError before
\* the call (C2).
C20_HandlerCalledPerUpdate ==
    [][IF TakesStdout /\ progress_handler /\ Accepted(Last(taken'["stdout"]))
       THEN handler_calls' = Append(handler_calls, Snapshot(metrics'))
       ELSE handler_calls' = handler_calls]_vars

\* seq with each of its lines stripped, as _handle_pipe strips it.
StrippedLines(seq) == [i \in 1..Len(seq) |-> Strip(seq[i])]

IsPrefix(a, b) == Len(a) <= Len(b) /\ a = SubSeq(b, 1, Len(a))

\* C21: on each channel the lines the poll loop and the drain have taken
\* from the queue are, in order, the first of the lines the child wrote to
\* the channel, each stripped as the reader thread strips it: the order is
\* kept, and no line is taken twice or made up.
C21_TakenIsPrefixOfWritten ==
    \A ch \in Channels : IsPrefix(taken[ch], StrippedLines(written[ch]))

\* Two different stderr lines and a stdout line have been taken.
C21_Witness ==
    /\ Len(taken["stderr"]) = 2
    /\ taken["stderr"][1] # taken["stderr"][2]
    /\ Len(taken["stdout"]) = 1
    /\ taken["stdout"][1] # ""

\* The number of lines the reader thread of ch has put in its queue.
Moved(ch) == Len(written[ch]) - Len(pipe[ch])

\* C22: with the reader threads scheduled fairly, whatever the poll loop
\* and the other thread do, each line the child has written to a pipe is
\* put in the queue of the channel in the end, a pipe that is full does not
\* stay full, and once the child has exited each thread closes its pipe and
\* ends.
C22_ReadersDeliver ==
    \A ch \in Channels :
        /\ \A n \in 1..MaxLines(ch) : (Len(written[ch]) >= n) ~> (Moved(ch) >= n)
        /\ (Len(pipe[ch]) = PipeCapacity) ~> (Len(pipe[ch]) < PipeCapacity)
        /\ (proc["ffmpeg"] = "exited") ~> (reader[ch] = "closed")

\* Both threads have ended with every line the child wrote in the queues,
\* and the poll loop has taken none of them.
C22_Witness ==
    /\ \A ch \in Channels : reader[ch] = "closed" /\ taken[ch] = <<>>
    /\ Len(queue["stderr"]) = MaxErrLines
    /\ Len(queue["stdout"]) = MaxOutLines
    /\ sup_pc = "poll"

\* C23: no exception leaves terminate_ffmpeg_process: whichever processes
\* have gone or may not be signalled, and whichever of the lookups fail,
\* while the descendants are listed and signalled, the group is looked up
\* and the parent is signalled, the call ends by returning or by the exit
\* "has not terminated", and until then it is at one of its steps.
C23_NoExceptionEscapes ==
    /\ term_exc = None
    /\ term_pc # "raised"

\* The call has returned after AccessDenied for a descendant and
\* ProcessLookupError for the group of a parent that had gone by then.
C23_Witness ==
    /\ term_pc = "returned"
    /\ {"AccessDenied", "ProcessLookupError"} \subseteq term_caught
    /\ "d1" \in denied
    /\ "d1" \in SeqRange(children)

\* The command has no "-i".
LacksInput(cmd) == ~InSeq("-i", cmd)

\* The command has "-i" and nothing after the path that follows it.
LacksOutput(cmd) == InSeq("-i", cmd) /\ Len(cmd) <= IndexOf(cmd, "-i") + 1

\* C24: FfmpegProcess(command) with a command that has no "-i", or that
\* has no output path after the input path, raises an error, and no probe
\* has been made and no child started by then.  The code does not keep it:
\* __init__ tests only for "-i".
C24_InvalidCommandRejected ==
    (ctor_pc # "new" /\ (LacksInput(command) \/ LacksOutput(command))) =>
        /\ ctor_pc = "raised"
        /\ ctor_exc # None
        /\ probed = <<>>
        /\ sup_pc = "not_started"

\* use_rich and use_tqdm have both ended, by a return or by an exception.
BothEnded == rich.pc \in {"done", "raised"} /\ tqdm.pc \in {"done", "raised"}

\* What a presenter owes for the exit code and a known duration: each value
\* given to the display is at most the duration, the last one is the
\* duration when the exit code is 0, and the result is 0 for the exit
\* code 0 and 1 for another.
Presents(st) ==
    /\ st.result = Some(IF bar_returncode = 0 THEN 0 ELSE 1)
    /\ BarDurationTruthy =>
           /\ \A i \in 1..Len(st.completed) :
                  IntLeq(st.completed[i], AsInt(duration_secs[1]))
           /\ bar_returncode = 0 =>
                  (st.completed # <<>> /\ Last(st.completed) = AsInt(duration_secs[1]))

\* C25: for the same duration, lines and exit code, use_rich and use_tqdm
\* give their displays the same values in the same order, each at most the
\* duration and the last one the duration when the exit code is 0, and
\* return the same result, 0 if and only if the exit code is 0.  The code
\* does not keep it for a line on which the parser raises (C9): neither
\* function returns.
C25_PresentersInterchangeable ==
    BothEnded =>
        /\ rich.completed = tqdm.completed
        /\ rich.result = tqdm.result
        /\ Presents(rich)
        /\ Presents(tqdm)

\* The call `how` has sent s to target.
Sent(how, target, s) ==
    \E i \in 1..Len(signal_log) :
        signal_log[i] = [how |-> how, target |-> target, sig |-> s]

\* The entries this step adds to signal_log.
NewEntries ==
    {signal_log'[i] : i \in (Len(signal_log) + 1)..Len(signal_log')}

\* This step sends s by the call `how`.
Sends(how, s) == \E e \in NewEntries : e.how = how /\ e.sig = s

\* The calls that signal the parent or its group.
ParentCalls == {"Popen.terminate", "proc.terminate", "os.killpg", "proc.kill"}

\* The group path has not confirmed the exit of the parent: the lookup or
\* a signal of the group failed, or the parent runs after the SIGKILL of
\* the group.
GroupPathFailed ==
    /\ ~terminated_by_pg
    /\ \/ term_caught \cap {"ProcessLookupError", "PermissionError"} # {}
       \/ Sent("os.killpg", "pgroup", "SIGKILL") /\ Running("ffmpeg")

C26_Step ==
    os_name = "posix" =>
        /\ Sends("os.killpg", "SIGTERM") =>
               /\ term_pc = "ux_pgid"
               /\ \A i \in 1..Len(signal_log) : signal_log[i].how \notin ParentCalls
        /\ Sends("os.killpg", "SIGKILL") =>
               /\ term_pc = "ux_killpg"
               /\ signal_log # <<>>
               /\ Last(signal_log) = [how |-> "os.killpg", target |-> "pgroup", sig |-> "SIGTERM"]
               /\ "TimeoutExpired" \in term_caught
        /\ Sends("proc.terminate", "SIGTERM") =>
               /\ GroupPathFailed
               /\ \A i \in 1..Len(signal_log) :
                      signal_log[i].how \notin {"proc.terminate", "proc.kill"}
        /\ Sends("proc.kill", "SIGKILL") =>
               /\ GroupPathFailed
               /\ Running("ffmpeg")
               /\ Sent("proc.terminate", "ffmpeg", "SIGTERM") \/ "AccessDenied" \in term_caught
               /\ ~Sent("proc.kill", "ffmpeg", "SIGKILL")
        /\ (terminated_by_pg' /\ ~terminated_by_pg) => ~Running("ffmpeg")
        /\ terminated_by_pg => signal_log' = signal_log

\* C26: on POSIX the group gets SIGTERM first, and SIGKILL only from the
\* handler of the timeout of the wait that follows the SIGTERM; the parent
\* itself is signalled (SIGTERM, then SIGKILL only while it still runs)
\* only when the group path has not confirmed its exit, that is after a
\* failed lookup, a failed signal of the group or a parent that runs after
\* the SIGKILL of the group; once terminated_by_pg is set no signal
\* follows.
C26_PosixEscalationOrder == [][C26_Step]_vars

\* The whole escalation: both signals of the group, then both of the parent.
C26_Witness ==
    /\ os_name = "posix"
    /\ term_pc = "final"
    /\ Len(signal_log) >= 4
    /\ SubSeq(signal_log, Len(signal_log) - 3, Len(signal_log)) =
           <<[how |-> "os.killpg", target |-> "pgroup", sig |-> "SIGTERM"],
             [how |-> "os.killpg", target |-> "pgroup", sig |-> "SIGKILL"],
             [how |-> "proc.terminate", target |-> "ffmpeg", sig |-> "SIGTERM"],
             [how |-> "proc.kill", target |-> "ffmpeg", sig |-> "SIGKILL"]>>

\* _terminate_children_processes has done with the child c: it was sent
\* SIGTERM unless it had ended or may not be signalled, and SIGKILL too
\* under the same conditions if the wait found it alive.
ChildDone(c) ==
    /\ Sent("child.terminate", c, "SIGTERM") \/ ~Running(c) \/ c \in denied
    /\ c \in alive => (Sent("child.kill", c, "SIGKILL") \/ ~Running(c) \/ c \in denied)

C27_Step ==
    (\E e \in NewEntries : e.how \in ParentCalls) =>
        /\ term_pc \notin {"tc_enum", "tc_term", "tc_wait", "tc_kill"}
        /\ \A i \in 1..Len(children) : ChildDone(children[i])
        /\ \A i \in 1..Len(signal_log) : signal_log[i].how \in {"child.terminate", "child.kill"}
               \/ signal_log[i].how \in ParentCalls

\* C27: when the parent or its group receives a signal, the loops of
\* _terminate_children_processes are over: every descendant of `children`
\* has been sent SIGTERM, and SIGKILL if the wait found it alive, unless it
\* had ended or may not be signalled.
C27_ChildrenBeforeParent == [][C27_Step]_vars

\* Both descendants signalled, one of them killed, then the group signalled.
C27_Witness ==
    /\ children = <<"d1", "d2">>
    /\ Sent("child.terminate", "d1", "SIGTERM")
    /\ Sent("child.terminate", "d2", "SIGTERM")
    /\ Sent("child.kill", "d2", "SIGKILL")
    /\ Sent("os.killpg", "pgroup", "SIGTERM")

C28_Step ==
    /\ \A e \in NewEntries : e.how = "child.terminate" =>
           /\ term_pc = "tc_term"
           /\ Running(e.target)
           /\ \A i \in 1..Len(signal_log) : signal_log[i].how # "child.kill"
    /\ (term_pc = "tc_term" /\ term_pc' # "tc_term") =>
           \A i \in 1..Len(children) :
               (Running(children[i]) /\ children[i] \notin denied) =>
                   [how |-> "child.terminate", target |-> children[i], sig |-> "SIGTERM"]
                       \in NewEntries
    /\ \A e \in NewEntries : e.how = "child.kill" =>
           /\ term_pc = "tc_kill"
           /\ e.target \in alive
           /\ Running(e.target)
           /\ Sent("child.terminate", e.target, "SIGTERM")
    /\ (term_pc = "tc_wait" /\ term_pc' # "tc_wait") =>
           alive' = {c \in SeqRange(children) : Running(c)}
    /\ term_pc \notin {"tc_enum", "tc_term", "tc_wait"} => alive' = alive

\* C28: in _terminate_children_processes every descendant that runs and
\* may be signalled gets SIGTERM in the first loop, before any SIGKILL;
\* SIGKILL is sent only in the loop after the one wait and only to a
\* descendant that the wait found alive and that still runs; `alive` is
\* the set of descendants running when the wait ended and does not change
\* afterwards, so a descendant that ended within the wait is never killed.
C28_ChildrenGracefulThenKill == [][C28_Step]_vars

\* d1 ended within the wait and was not killed, d2 was killed.
C28_Witness ==
    /\ children = <<"d1", "d2">>
    /\ alive = {"d2"}
    /\ Sent("child.terminate", "d1", "SIGTERM")
    /\ Sent("child.kill", "d2", "SIGKILL")
    /\ ~Sent("child.kill", "d1", "SIGKILL")
    /\ term_pc = "tp_check"

\* C30: on POSIX, for a child in the group that Popen leaves it in, no
\* signal of terminate_ffmpeg_process reaches the supervising process.
\* The code does not keep it: the group of the child is the group of the
\* supervising process, and os.killpg signals every member.
C30_SupervisorNeverSignalled ==
    (os_name = "posix" /\ pgroup = PopenGroup) => signals["supervisor"] = {}

\* This step takes a line from stderr_queue: the head of the queue.
TakesStderr == taken'["stderr"] # taken["stderr"]

C29_Step ==
    /\ TakesStderr =>
           /\ sup_pc \in {"get_stderr", "drain"}
           /\ taken'["stderr"] = Append(taken["stderr"], Head(queue["stderr"]))
           /\ log' = IF Head(queue["stderr"]) # ""
                     THEN Append(log, Head(queue["stderr"])) ELSE log
           /\ error_messages' =
                  IF Head(queue["stderr"]) # "" /\ HasErrorWord(Lower(Head(queue["stderr"])))
                  THEN Append(error_messages, Head(queue["stderr"])) ELSE error_messages
           /\ sup_pc' = IF sup_pc = "get_stderr" THEN "poll" ELSE "drain"
           /\ UNCHANGED <<sup_exc, proc, signals, returncode, kill_list, handled_end>>
    /\ ~TakesStderr => error_messages' = error_messages

\* C29: every non-empty stderr line the supervisor takes, in the poll loop
\* or in the drain, is appended to the log, and is appended to
\* error_messages if and only if its lower-cased text contains a word of
\* error_words; no other step changes error_messages, which is therefore
\* the taken lines with such a word, in order; taking a line, with or
\* without such a word, raises nothing, leaves the child alone and goes
\* back to the test of the poll loop, or on with the drain.
C29_StderrLoggedAndScanned == [][C29_Step]_vars

\* Both kinds of line consumed: one goes to the log only, one to both.
C29_Witness ==
    /\ sup_pc = "returned"
    /\ taken["stderr"] = <<"Stream #0:0: Video: h264", "in.mp4: No such file or directory">>
    /\ error_messages = <<"in.mp4: No such file or directory">>
    /\ Len(log) = 3

\* A forced kill was sent to the parent, by itself or with its group, and
\* reached it, and a wait for the parent that began after it timed out.
KilledAndWaited ==
    /\ "SIGKILL" \in signals["ffmpeg"]
    /\ timeout_at # None
    /\ \E i \in 1..timeout_at[1] :
           signal_log[i].sig = "SIGKILL" /\ signal_log[i].how \in ParentCalls

\* C31: terminate_ffmpeg_process ends with exit("It seems like the FFmpeg
\* process has not terminated.") only after SIGKILL was sent to the parent
\* and a wait with a timeout that followed it ended with the parent still
\* running, on Windows and on POSIX.  The code does not keep it: when the
\* parent may not be signalled (psutil.AccessDenied, PermissionError) the
\* except clauses only print, no wait is made, and the final test of
\* process.poll() raises the exit.
C31_FatalOnlyAfterKillAndWait == term_pc = "fatal" => KilledAndWaited

====
